---- MODULE Spec2Model ----
(***************************************************************************)
(* Order lifecycle of the trading platform: the Order Manager's intake and *)
(* dispatch loops with the sent-orders ledger, the start/stop protocol of  *)
(* the Order Manager, and the channels towards the gateways.               *)
(***************************************************************************)
EXTENDS Integers, Sequences, FiniteSets, TLC

\* ------------------------------------------------------------------ bounds

\* number of order batches the robots hand to the Order Manager in one run
MaxOrders == 4

\* number of stop() calls the Order Manager accepts in one run
MaxStops == 1

\* ------------------------------------------------------------- identifiers

Robots == {"R1", "R2"}

\* gateway identifiers are strings; they are kept as sequences of characters
\* because extract_gateway_name works on the characters
GwBinance == <<"B", "i", "n", "a", "n", "c", "e">>
GwHuobi == <<"H", "u", "o", "b", "i">>
GwHuobiLower == <<"h", "u", "o", "b", "i">>

\* what the strategies of the robots ask for: the robot, the kind of order and
\* the gateway field of the Action
OrderMenu ==
    {[robot |-> "R1", kind |-> "Limit", gateway |-> GwBinance],
     [robot |-> "R2", kind |-> "Limit", gateway |-> GwBinance],
     [robot |-> "R1", kind |-> "Market", gateway |-> GwBinance],
     [robot |-> "R2", kind |-> "Limit", gateway |-> GwHuobiLower]}

\* the keys of order_msg_senders: the configured gateway names
GatewayNames == {GwBinance, GwHuobi}

LowerLetters ==
    <<"a", "b", "c", "d", "e", "f", "g", "h", "i", "j", "k", "l", "m",
      "n", "o", "p", "q", "r", "s", "t", "u", "v", "w", "x", "y", "z">>

UpperLetters ==
    <<"A", "B", "C", "D", "E", "F", "G", "H", "I", "J", "K", "L", "M",
      "N", "O", "P", "Q", "R", "S", "T", "U", "V", "W", "X", "Y", "Z">>

\* char::to_uppercase().nth(0) on the letters the identifiers use
ToUpper(c) ==
    IF \E i \in 1..26 : LowerLetters[i] = c
    THEN UpperLetters[CHOOSE i \in 1..26 : LowerLetters[i] = c]
    ELSE c

\* positions at which "::" starts in an identifier
SepPositions(id) == {i \in 1..(Len(id) - 1) : id[i] = ":" /\ id[i + 1] = ":"}

\* Gateway::extract_gateway_name
extract_gateway_name(id) ==
    IF SepPositions(id) # {}
    THEN LET p == CHOOSE i \in SepPositions(id) : \A j \in SepPositions(id) : i <= j
         IN SubSeq(id, 1, p - 1)
    ELSE [id EXCEPT ![1] = ToUpper(id[1])]

\* ------------------------------------------------------------------ orders

\* an OrderContainer; created_at is carried along unchanged and is left out
OrderContainer(robot, kind, gw, price, id) ==
    [robot_id |-> robot, kind |-> kind, gateway |-> gw, symbol |-> "BTCUSDT",
     amount |-> 1, price |-> price, order_side |-> "Buy",
     custom_order_id |-> id, metainfo |-> "S"]

\* OrderManager::convert_limit_to_cancel (defined on limit orders): a
\* CancelOrder with order id 0 and the fields of the limit order, in a container
\* with the robot id and the metainfo of the limit order's container
convert_limit_to_cancel(oc) ==
    [robot_id |-> oc.robot_id, kind |-> "Cancel", order_id |-> 0,
     gateway |-> oc.gateway, symbol |-> oc.symbol, price |-> oc.price,
     amount |-> oc.amount, order_side |-> oc.order_side,
     custom_order_id |-> oc.custom_order_id, metainfo |-> oc.metainfo]

\* OrderManager::get_gateway
get_gateway(oc) == oc.gateway

\* a HashMap insert
Put(map, k, v) == [x \in (DOMAIN map) \cup {k} |-> IF x = k THEN v ELSE map[x]]

EmptyMap == [x \in {} |-> <<>>]

\* the elements of a sequence satisfying a test, in order
RECURSIVE SelectKind(_, _)
SelectKind(s, kind) ==
    IF s = <<>> THEN <<>>
    ELSE IF Head(s).kind = kind
         THEN <<Head(s)>> \o SelectKind(Tail(s), kind)
         ELSE SelectKind(Tail(s), kind)

\* Vec::remove(index), 1-based here
RemoveAt(s, i) == SubSeq(s, 1, i - 1) \o SubSeq(s, i + 1, Len(s))

\* OrderManager::find_sent_orders: the indexes, ascending, of the sent limit
\* orders with the container's robot, gateway, symbol, side and metainfo
RECURSIVE FindFrom(_, _, _)
FindFrom(sent, oc, i) ==
    IF i > Len(sent) THEN <<>>
    ELSE IF /\ sent[i].kind = "Limit"
            /\ sent[i].robot_id = oc.robot_id
            /\ sent[i].gateway = oc.gateway
            /\ sent[i].symbol = oc.symbol
            /\ sent[i].order_side = oc.order_side
            /\ sent[i].metainfo = oc.metainfo
         THEN <<i>> \o FindFrom(sent, oc, i + 1)
         ELSE FindFrom(sent, oc, i + 1)

find_sent_orders(sent, oc) ==
    IF oc.kind = "Limit" THEN FindFrom(sent, oc, 1) ELSE <<>>

\* the removal loop of check_order: the indexes were computed before the first
\* removal and are used as they are; Vec::remove panics past the end
RECURSIVE RemoveLoop(_, _, _)
RemoveLoop(list, indexes, cancels) ==
    IF indexes = <<>> THEN [list |-> list, cancels |-> cancels, panic |-> FALSE]
    ELSE IF Head(indexes) > Len(list)
         THEN [list |-> list, cancels |-> cancels, panic |-> TRUE]
         ELSE RemoveLoop(RemoveAt(list, Head(indexes)), Tail(indexes),
                         Append(cancels, convert_limit_to_cancel(list[Head(indexes)])))

\* a check_order that looks for sent orders whatever the kind of the order
check_order_AnyKind(ledger, oc) ==
    IF oc.gateway \in DOMAIN ledger
    THEN LET r == RemoveLoop(ledger[oc.gateway], FindFrom(ledger[oc.gateway], oc, 1), <<>>)
         IN [ledger |-> Put(ledger, oc.gateway, r.list), cancels |-> r.cancels, panic |-> r.panic]
    ELSE [ledger |-> ledger, cancels |-> <<>>, panic |-> FALSE]

\* OrderManager::check_order on the ledger: the ledger after it, the Cancel
\* orders it returns and whether it panicked
check_order(ledger, oc) ==
    IF oc.kind = "Limit" /\ oc.gateway \in DOMAIN ledger
    THEN LET r == RemoveLoop(ledger[oc.gateway], find_sent_orders(ledger[oc.gateway], oc), <<>>)
         IN [ledger |-> Put(ledger, oc.gateway, r.list), cancels |-> r.cancels, panic |-> r.panic]
    ELSE [ledger |-> ledger, cancels |-> <<>>, panic |-> FALSE]

\* a save_sent_orders that adds the limit orders of the batch to the entry
save_sent_orders_Merge(ledger, gw, orders) ==
    Put(ledger, gw, (IF gw \in DOMAIN ledger THEN ledger[gw] ELSE <<>>)
                       \o SelectKind(orders, "Limit"))

\* OrderManager::save_sent_orders: the limit orders of the batch replace the entry
save_sent_orders(ledger, gw, orders) == Put(ledger, gw, SelectKind(orders, "Limit"))

\* OrderManager::send_orders_to_gateway on the channels and the ledger: with a
\* sender for the gateway name and a send that succeeds (the receiver is alive)
\* the batch is on the channel and save_sent_orders records it; with no sender,
\* or a receiver that is gone, an error is logged
send_orders_to_gateway(st, gateway, orders, receiver_alive) ==
    IF gateway \in GatewayNames /\ receiver_alive
    THEN [log |-> [st.log EXCEPT ![gateway] = Append(@, orders)],
          ledger |-> save_sent_orders(st.ledger, gateway, orders)]
    ELSE st

\* ------------------------------------------------------------------- state

VARIABLES
    omState,        \* OrderManager.current_state
    omStopPc,       \* where a running stop() call is: idle, askStop, sendStop, finish
    askLoop,        \* the intake thread: none, running, panicked
    sendLoop,       \* the dispatch thread: none, running, panicked
    locksPoisoned,  \* wanted_orders and sent_orders RwLocks poisoned by a panic
    inbox,          \* order_msg_receiver: batches the robots sent, not yet taken
    wanted_orders,  \* OrderManager.wanted_orders
    sent_orders,    \* OrderManager.sent_orders, the ledger
    gwLog,          \* per gateway name, the messages sent on its channel so far
    nSubmitted,     \* batches handed in by the robots so far
    omCall,         \* the last start()/stop() call of the Order Manager and its result
    omStops         \* stop() calls accepted so far

omVars == <<omState, omStopPc, askLoop, sendLoop, locksPoisoned, inbox,
            wanted_orders, sent_orders, gwLog, nSubmitted, omCall, omStops>>

\* the Context Manager
VARIABLES
    cmState,            \* ContextManager.current_state
    cmStopPc,           \* where a running stop() call is: idle, publishStop, updateStop, finish
    publishLoop,        \* the publish thread: none, running, panicked
    updateLoop,         \* the update thread: none, running
    info_receiver,      \* the channel from the gateways: GatewayMsgs not yet taken
    depth_info,         \* ContextManager.depth_info
    active_orders_info, \* ContextManager.active_orders_info
    filled_orders_info_store, \* ContextManager.filled_orders_info_store
    positions_file,     \* the content of ./data/positions.bin
    info_senders,       \* per robot, the ContextInfos published on its channel
    nGatewayMsgs,       \* GatewayMsgs the gateways sent so far
    cmCall,             \* the last start()/stop() call of the Context Manager
    cmStops             \* stop() calls accepted so far

cmVars == <<cmState, cmStopPc, publishLoop, updateLoop, info_receiver, depth_info,
            active_orders_info, filled_orders_info_store, positions_file,
            info_senders, nGatewayMsgs, cmCall, cmStops>>

\* one Gateway
VARIABLES
    gwStatus,           \* Gateway.status
    gwStopPc,           \* where a running stop() call is: idle, first, second, finish
    receiveLoop,        \* the thread receiving orders: none, running
    orderLoop,          \* the thread sending orders to the exchange: none, running, panicked
    feedThreads,        \* send_info and receive_filled_orders threads spawned so far
    orders_receiver,    \* the channel from the Order Manager: batches not yet taken
    order_containers,   \* Gateway.order_containers, the queue
    queuePoisoned,      \* the order_containers RwLock poisoned by a panic
    exchangeLog,        \* the requests made to the exchange
    nGwBatches,         \* batches sent to the gateway so far
    gwCall,             \* the last start()/stop() call of the Gateway
    gwStops             \* stop() calls accepted so far

gwVars == <<gwStatus, gwStopPc, receiveLoop, orderLoop, feedThreads, orders_receiver,
            order_containers, queuePoisoned, exchangeLog, nGwBatches, gwCall, gwStops>>

\* one Robot
VARIABLES
    robotStatus,        \* Robot.status
    statusPoisoned,     \* the status RwLock poisoned by a panic
    robotStopPc,        \* where a running stop() call is: idle, send, trySend
    mainLoop,           \* the main-cycle thread: none, running, exited
    infoLoop,           \* the info thread: none, running, locking, exited, panicked
    context_info_receiver, \* the channel from the Context Manager: positions not yet taken
    max_pnl,            \* RiskControl.max_pnl
    batchesSent,        \* order batches sent to the Order Manager so far
    finishCount,        \* calls of the strategy's finish()
    nContextMsgs,       \* ContextMsgs sent to the robot so far
    robotCall           \* the last start()/stop()/lock() call of the Robot

robotVars == <<robotStatus, statusPoisoned, robotStopPc, mainLoop, infoLoop,
               context_info_receiver, max_pnl, batchesSent, finishCount,
               nContextMsgs, robotCall>>

\* a function of the program applied on its own: the arguments it is given and
\* what it returns (unitOut.done is FALSE until it has been applied)
VARIABLES
    unitIn,
    unitOut

unitVars == <<unitIn, unitOut>>

\* the Platform
VARIABLES
    platformStatus,     \* "Stopped" or "Active"
    platformPc,         \* where a start() or stop() call of the Platform stands
    platformCall,       \* the last call: operation, status it met, result
    ROBOT_TO_GATEWAY_TIMES,     \* whether the vector holds a duration
    GATEWAY_TO_ROBOT_TIMES      \* whether the vector holds a duration

timesVars == <<ROBOT_TO_GATEWAY_TIMES, GATEWAY_TO_ROBOT_TIMES>>

platformVars == <<platformStatus, platformPc, platformCall, timesVars>>

\* the active orders: the channel from the gateways to the Order Manager and
\* the Order Manager's store, robot id -> active orders
VARIABLES
    active_order_msg_receiver,
    active_orders

activeVars == <<active_order_msg_receiver, active_orders>>

\* the parameters set_config replaces, and the set_config calls
VARIABLES
    robot_params,       \* Robot.robot_params
    gateway_params,     \* Gateway.gateway_params
    robotSetConfigPc,   \* where a Robot::set_config call stands, and its config
    configCall,         \* the last set_config call: component, status it met, result
    nConfigs            \* set_config calls so far

configVars == <<robot_params, gateway_params, robotSetConfigPc, configCall, nConfigs>>

\* whether the dispatch thread of the Order Manager has returned from a
\* send_to_gateways() since start() spawned it
VARIABLES sendPassed

passVars == <<sendPassed>>

vars ==
    <<omVars, cmVars, gwVars, robotVars, unitVars, platformVars, activeVars, configVars,
      passVars>>

NotApplied == [done |-> FALSE]

\* no function is applied on its own in the runs of the components
UnitInit ==
    /\ unitIn = <<>>
    /\ unitOut = NotApplied

NoCall == [op |-> "none", res |-> "none"]

\* OrderManager::init
OMInit ==
    /\ omState = "Stopped"
    /\ omStopPc = "idle"
    /\ askLoop = "none"
    /\ sendLoop = "none"
    /\ locksPoisoned = FALSE
    /\ inbox = <<>>
    /\ wanted_orders = EmptyMap
    /\ sent_orders = EmptyMap
    /\ gwLog = [g \in GatewayNames |-> <<>>]
    /\ nSubmitted = 0
    /\ omCall = NoCall
    /\ omStops = 0
    /\ sendPassed = FALSE

\* ---------------------------------------------------------- the robots' side

\* Robot::send_order: a robot hands a batch to the Order Manager's channel.  The
\* n-th batch holds one order; a limit order has price 100 + (n - 1) and custom
\* order id n, a market order has neither (both 0).
NewOrder(r, k, g, n) ==
    IF k = "Limit" THEN OrderContainer(r, "Limit", g, 100 + n, n + 1)
    ELSE OrderContainer(r, "Market", g, 0, 0)

Submit ==
    /\ nSubmitted < MaxOrders
    /\ \E t \in OrderMenu :
          inbox' = Append(inbox, <<NewOrder(t.robot, t.kind, t.gateway, nSubmitted)>>)
    /\ nSubmitted' = nSubmitted + 1
    /\ UNCHANGED <<omState, omStopPc, askLoop, sendLoop, locksPoisoned,
                   wanted_orders, sent_orders, gwLog, omCall, omStops>>
    /\ UNCHANGED <<cmVars, gwVars, robotVars, unitVars, platformVars, activeVars, configVars, passVars>>

\* ------------------------------------------------------------- intake loop

\* OrderManager::ask on the pending map: the batch is appended to the list of
\* the robot of its first container
ask(wanted, batch) ==
    LET robot_id == batch[1].robot_id
    IN IF robot_id \in DOMAIN wanted
       THEN Put(wanted, robot_id, wanted[robot_id] \o batch)
       ELSE Put(wanted, robot_id, batch)

\* one iteration of the intake thread: ask(), then the poll of ask_stop_channel
AskIter ==
    /\ askLoop = "running"
    /\ IF inbox # <<>>
       THEN /\ inbox' = Tail(inbox)
            /\ wanted_orders' = IF locksPoisoned THEN wanted_orders
                                ELSE ask(wanted_orders, Head(inbox))
       ELSE UNCHANGED <<inbox, wanted_orders>>
    /\ IF omStopPc = "askStop"
       THEN askLoop' = "none" /\ omStopPc' = "sendStop"
       ELSE UNCHANGED <<askLoop, omStopPc>>
    /\ UNCHANGED <<omState, sendLoop, locksPoisoned, sent_orders, gwLog,
                   nSubmitted, omCall, omStops>>
    /\ UNCHANGED <<cmVars, gwVars, robotVars, unitVars, platformVars, activeVars, configVars, passVars>>

\* ----------------------------------------------------------- dispatch loop

\* the orders of one robot in send_to_gateways: check_order, then the Cancels
\* and the order itself are added to the batch of the gateway
RECURSIVE ProcessOrders(_, _)
ProcessOrders(st, orders) ==
    IF orders = <<>> \/ st.panic THEN st
    ELSE LET oc == Head(orders)
             c == check_order(st.ledger, oc)
             orders_to_send == c.cancels \o <<oc>>
             gateway == extract_gateway_name(get_gateway(orders_to_send[1]))
         IN IF c.panic
            THEN [ledger |-> c.ledger, out |-> st.out, panic |-> TRUE]
            ELSE ProcessOrders(
                   [ledger |-> c.ledger,
                    out |-> IF gateway \in DOMAIN st.out
                            THEN Put(st.out, gateway, st.out[gateway] \o orders_to_send)
                            ELSE Put(st.out, gateway, orders_to_send),
                    panic |-> FALSE],
                   Tail(orders))

\* the loop over wanted_orders.keys(), taken in the order robots
RECURSIVE ProcessRobots(_, _, _)
ProcessRobots(st, wanted, robots) ==
    IF robots = <<>> THEN st
    ELSE ProcessRobots(ProcessOrders(st, wanted[Head(robots)]), wanted, Tail(robots))

\* the orders in which a HashMap may hand out the keys S
Orderings(S) ==
    {p \in [1..Cardinality(S) -> S] : \A i, j \in 1..Cardinality(S) : i # j => p[i] # p[j]}

\* OrderManager::send_orders_to_gateway on the channel log
SendLog(log, out) ==
    [g \in GatewayNames |-> IF g \in DOMAIN out THEN Append(log[g], out[g]) ELSE log[g]]

\* OrderManager::send_orders on the ledger: every batch whose gateway has a
\* channel is recorded by save_sent_orders
RECURSIVE SaveAll(_, _, _)
SaveAll(ledger, out, gws) ==
    IF gws = {} THEN ledger
    ELSE LET g == CHOOSE x \in gws : TRUE
         IN SaveAll(IF g \in GatewayNames THEN save_sent_orders(ledger, g, out[g]) ELSE ledger,
                    out, gws \ {g})

\* one iteration of the dispatch thread: send_to_gateways(), then the poll of
\* send_stop_channel
SendIter ==
    /\ sendLoop = "running"
    /\ IF locksPoisoned \/ DOMAIN wanted_orders = {}
       THEN /\ UNCHANGED <<wanted_orders, sent_orders, gwLog, locksPoisoned>>
            /\ sendPassed' = TRUE
            /\ IF omStopPc = "sendStop"
               THEN sendLoop' = "none" /\ omStopPc' = "finish"
               ELSE UNCHANGED <<sendLoop, omStopPc>>
       ELSE \E robots \in Orderings(DOMAIN wanted_orders) :
              LET st == ProcessRobots([ledger |-> sent_orders, out |-> EmptyMap, panic |-> FALSE],
                                      wanted_orders, robots)
              IN IF st.panic
                 THEN /\ sent_orders' = st.ledger
                      /\ locksPoisoned' = TRUE
                      /\ sendLoop' = "panicked"
                      /\ UNCHANGED <<wanted_orders, gwLog, omStopPc>>
                      /\ sendPassed' = sendPassed
                 ELSE /\ wanted_orders' = EmptyMap
                      /\ gwLog' = SendLog(gwLog, st.out)
                      /\ sent_orders' = SaveAll(st.ledger, st.out, DOMAIN st.out)
                      /\ UNCHANGED locksPoisoned
                      /\ sendPassed' = TRUE
                      /\ IF omStopPc = "sendStop"
                         THEN sendLoop' = "none" /\ omStopPc' = "finish"
                         ELSE UNCHANGED <<sendLoop, omStopPc>>
    /\ UNCHANGED <<omState, askLoop, inbox, nSubmitted, omCall, omStops>>
    /\ UNCHANGED <<cmVars, gwVars, robotVars, unitVars, platformVars, activeVars, configVars>>

\* the poll of send_stop_channel that ends an iteration of the dispatch thread
\* whose send_to_gateways() returned earlier: the thread was held between the
\* pass and the poll while the intake thread and stop() went on.  What the
\* intake thread has filed since that pass stays in wanted_orders.
SendPoll ==
    /\ sendLoop = "running"
    /\ sendPassed
    /\ omStopPc = "sendStop"
    /\ sendLoop' = "none"
    /\ omStopPc' = "finish"
    /\ UNCHANGED <<omState, askLoop, locksPoisoned, inbox, wanted_orders, sent_orders,
                   gwLog, nSubmitted, omCall, omStops, sendPassed>>
    /\ UNCHANGED <<cmVars, gwVars, robotVars, unitVars, platformVars, activeVars, configVars>>

\* ------------------------------------------------------- start() and stop()

\* OrderManager::start from Stopped: the state becomes Started and the two
\* threads are spawned.  start() waits for the state lock a running stop() holds.
OMStart ==
    /\ omStopPc = "idle"
    /\ omState = "Stopped"
    /\ omState' = "Started"
    /\ askLoop' = "running"
    /\ sendLoop' = "running"
    /\ omCall' = [op |-> "start", res |-> "Ok"]
    /\ sendPassed' = FALSE
    /\ UNCHANGED <<omStopPc, locksPoisoned, inbox, wanted_orders, sent_orders,
                   gwLog, nSubmitted, omStops>>
    /\ UNCHANGED <<cmVars, gwVars, robotVars, unitVars, platformVars, activeVars, configVars>>

\* OrderManager::start while Started: "Order Manager is already started"
OMStartErr ==
    /\ omStopPc = "idle"
    /\ omState = "Started"
    /\ omCall' = [op |-> "start", res |-> "Err"]
    /\ UNCHANGED <<omState, omStopPc, askLoop, sendLoop, locksPoisoned, inbox,
                   wanted_orders, sent_orders, gwLog, nSubmitted, omStops>>
    /\ UNCHANGED <<cmVars, gwVars, robotVars, unitVars, platformVars, activeVars, configVars, passVars>>

\* OrderManager::stop while Started, up to the blocking send on ask_stop_channel
OMStop ==
    /\ omStopPc = "idle"
    /\ omState = "Started"
    /\ omStopPc' = "askStop"
    /\ omCall' = [op |-> "stop", res |-> "pending"]
    /\ omStops < MaxStops
    /\ omStops' = omStops + 1
    /\ UNCHANGED <<omState, askLoop, sendLoop, locksPoisoned, inbox,
                   wanted_orders, sent_orders, gwLog, nSubmitted>>
    /\ UNCHANGED <<cmVars, gwVars, robotVars, unitVars, platformVars, activeVars, configVars, passVars>>

\* OrderManager::stop while Stopped: "Order Manager is already stopped"
OMStopErr ==
    /\ omStopPc = "idle"
    /\ omState = "Stopped"
    /\ omCall' = [op |-> "stop", res |-> "Err"]
    /\ UNCHANGED <<omState, omStopPc, askLoop, sendLoop, locksPoisoned, inbox,
                   wanted_orders, sent_orders, gwLog, nSubmitted, omStops>>
    /\ UNCHANGED <<cmVars, gwVars, robotVars, unitVars, platformVars, activeVars, configVars, passVars>>

\* a shutdown that forgets the first order of every ledger entry
make_cancel_orders_SkipFirst(ledger) ==
    [g \in DOMAIN ledger |->
        [i \in 1..(IF ledger[g] = <<>> THEN 0 ELSE Len(ledger[g]) - 1) |->
            convert_limit_to_cancel(ledger[g][i + 1])]]

\* OrderManager::make_cancel_orders: per ledger key the Cancels of its entries
make_cancel_orders(ledger) ==
    [g \in DOMAIN ledger |->
        [i \in 1..Len(ledger[g]) |-> convert_limit_to_cancel(ledger[g][i])]]

\* the rest of OrderManager::stop once both stop signals were taken: on_finish
\* (make_cancel_orders clears the ledger, send_orders sends the Cancel batches
\* and records each of them), then the state becomes Stopped
OMStopFinish ==
    /\ omStopPc = "finish"
    /\ LET cancel_orders == IF locksPoisoned THEN EmptyMap ELSE make_cancel_orders(sent_orders)
       IN /\ gwLog' = SendLog(gwLog, cancel_orders)
          /\ sent_orders' = IF locksPoisoned THEN sent_orders
                            ELSE SaveAll(EmptyMap, cancel_orders, DOMAIN cancel_orders)
    /\ omState' = "Stopped"
    /\ omStopPc' = "idle"
    /\ omCall' = [op |-> "stop", res |-> "Ok"]
    /\ UNCHANGED <<askLoop, sendLoop, locksPoisoned, inbox, wanted_orders,
                   nSubmitted, omStops>>
    /\ UNCHANGED <<cmVars, gwVars, robotVars, unitVars, platformVars, activeVars, configVars, passVars>>

\* ========================================================= Context Manager

\* number of messages the gateways send to the Context Manager in one run
MaxGwMsgs == 2

Digits == <<"0", "1", "2", "3", "4", "5", "6", "7", "8", "9">>

IsDigit(c) == \E i \in 1..10 : Digits[i] = c

DigitValue(c) == (CHOOSE i \in 1..10 : Digits[i] = c) - 1

\* str::parse on the amount of a fill: the digits read as a number; a string
\* that is no number does not parse
ParseOk(str) == str # <<>> /\ \A i \in 1..Len(str) : IsDigit(str[i])

RECURSIVE ParseValue(_)
ParseValue(str) ==
    IF str = <<>> THEN 0
    ELSE 10 * ParseValue(SubSeq(str, 1, Len(str) - 1)) + DigitValue(str[Len(str)])

\* what the gateways send: depth of two instruments of one exchange, the
\* active order of robot R1, its fill, and a fill of an order never recorded
DepthOf(symbol) ==
    [gateway_name |-> GwBinance, exchange_name |-> GwBinance, symbol |-> symbol,
     depth |-> [bids |-> <<[price |-> 99, qty |-> 1]>>,
                asks |-> <<[price |-> 101, qty |-> 1], [price |-> 101, qty |-> 2]>>]]

GatewayMsgMenu ==
    {[type |-> "DepthMsg", depth_info |-> DepthOf("BTCUSDT")],
     [type |-> "DepthMsg", depth_info |-> DepthOf("ETHUSDT")],
     [type |-> "ActiveOrder",
      active_order |-> [custom_order_id |-> 1, robot_id |-> "R1", gateway |-> GwBinance,
                        symbol |-> "BTCUSDT", amount |-> 1, price |-> 100,
                        order_side |-> "Buy", strategy_params |-> "S"]],
     [type |-> "FilledOrder",
      filled_order |-> [custom_order_id |-> 1, order_id |-> 7, symbol |-> "BTCUSDT",
                        amount |-> <<"2">>]],
     [type |-> "FilledOrder",
      filled_order |-> [custom_order_id |-> 2, order_id |-> 8, symbol |-> "BTCUSDT",
                        amount |-> <<"3">>]]}

\* a fill of an earlier run, as ./data/positions.bin keeps it
StoredFill(robot, id) ==
    [order_id |-> 0, custom_order_id |-> id, gateway |-> GwBinance, robot_id |-> robot,
     symbol |-> "ETHUSDT", amount |-> <<"1">>, price |-> 100 + id, order_side |-> "Sell",
     strategy_params |-> "S"]

\* ContextManager::load_filled_info: what init may find in the positions file,
\* nothing (no file, or a damaged one) or the fills of an earlier run
load_filled_info ==
    {EmptyMap,
     Put(Put(EmptyMap, "R1", <<StoredFill("R1", 8)>>), "R2", <<StoredFill("R2", 9)>>)}

\* ContextManager::init; the filled-history store is loaded from the positions
\* file
CMInit ==
    /\ cmState = "Stopped"
    /\ cmStopPc = "idle"
    /\ publishLoop = "none"
    /\ updateLoop = "none"
    /\ info_receiver = <<>>
    /\ depth_info = EmptyMap
    /\ active_orders_info = EmptyMap
    /\ positions_file \in load_filled_info
    /\ filled_orders_info_store = positions_file
    /\ info_senders = [r \in Robots |-> <<>>]
    /\ nGatewayMsgs = 0
    /\ cmCall = NoCall
    /\ cmStops = 0

\* a GatewayMsg of any kind arrives on the Context Manager's info_receiver
GatewaySends ==
    /\ nGatewayMsgs < MaxGwMsgs
    /\ \E m \in GatewayMsgMenu : info_receiver' = Append(info_receiver, m)
    /\ nGatewayMsgs' = nGatewayMsgs + 1
    /\ UNCHANGED <<cmState, cmStopPc, publishLoop, updateLoop, depth_info,
                   active_orders_info, filled_orders_info_store, positions_file,
                   info_senders, cmCall, cmStops>>
    /\ UNCHANGED <<omVars, gwVars, robotVars, unitVars, platformVars, activeVars, configVars, passVars>>

\* what a running Gateway sends on info_sender: depth (send_info) and the
\* fills its exchange reports (binance_ws, huobi_ws).  The ActiveOrder of an
\* accepted limit order goes to the Order Manager (save_active_order, on
\* active_order_sender), never on info_sender.
GatewayFeeds ==
    /\ nGatewayMsgs < MaxGwMsgs
    /\ \E m \in {x \in GatewayMsgMenu : x.type \in {"DepthMsg", "FilledOrder"}} :
          info_receiver' = Append(info_receiver, m)
    /\ nGatewayMsgs' = nGatewayMsgs + 1
    /\ UNCHANGED <<cmState, cmStopPc, publishLoop, updateLoop, depth_info,
                   active_orders_info, filled_orders_info_store, positions_file,
                   info_senders, cmCall, cmStops>>
    /\ UNCHANGED <<omVars, gwVars, robotVars, unitVars, platformVars, activeVars, configVars, passVars>>

\* one side of OrderBook::from_depth: the tickers become a map from price to
\* quantity, a later ticker of the same price replacing an earlier one
RECURSIVE SideOf(_)
SideOf(tickers) ==
    IF tickers = <<>> THEN EmptyMap
    ELSE Put(SideOf(SubSeq(tickers, 1, Len(tickers) - 1)),
             tickers[Len(tickers)].price, tickers[Len(tickers)].qty)

\* OrderBook::from_depth
from_depth(depth, symbol, gateway_name) ==
    [instrument_name |-> symbol, gateway_name |-> gateway_name,
     bids |-> SideOf(depth.bids), asks |-> SideOf(depth.asks)]

\* the order books publish_context_info builds from depth_info (a Vec in the
\* order of the HashMap's keys; kept as a set)
orderbooks_info(depths) ==
    {[gateway_name |-> depths[g][sym].gateway_name,
      exchange_name |-> depths[g][sym].exchange_name,
      symbol |-> sym,
      order_book |-> from_depth(depths[g][sym].depth, sym, g)] :
        <<g, sym>> \in UNION {{<<x, y>> : y \in DOMAIN depths[x]} : x \in DOMAIN depths}}

\* positions built from the fills of robot R1, whichever robot is asked for
PositionsOf_OfFirstRobot(filled, robot) ==
    IF "R1" \in DOMAIN filled
    THEN [i \in 1..Len(filled["R1"]) |->
            [gateway |-> filled["R1"][i].gateway,
             symbol |-> filled["R1"][i].symbol,
             amount |-> ParseValue(filled["R1"][i].amount),
             price |-> filled["R1"][i].price,
             order_side |-> filled["R1"][i].order_side,
             strategy_params |-> filled["R1"][i].strategy_params]]
    ELSE <<>>

\* the positions publish_context_info builds for a robot from its fills
PositionsOf(filled, robot) ==
    IF robot \in DOMAIN filled
    THEN [i \in 1..Len(filled[robot]) |->
            [gateway |-> filled[robot][i].gateway,
             symbol |-> filled[robot][i].symbol,
             amount |-> ParseValue(filled[robot][i].amount),
             price |-> filled[robot][i].price,
             order_side |-> filled[robot][i].order_side,
             strategy_params |-> filled[robot][i].strategy_params]]
    ELSE <<>>

\* amount.parse().unwrap() fails on a fill of some robot that has a channel
PublishPanics(filled) ==
    \E r \in Robots \cap DOMAIN filled :
        \E i \in 1..Len(filled[r]) : ~ ParseOk(filled[r][i].amount)

\* a send on a robot's channel; of consecutive equal ContextInfos the channel
\* log keeps one
Publish(chan, info) ==
    IF chan # <<>> /\ chan[Len(chan)] = info THEN chan ELSE Append(chan, info)

\* ContextManager::publish_context_info
publish_context_info(chans, depths, filled) ==
    [r \in Robots |->
        Publish(chans[r], [orderbooks_info |-> orderbooks_info(depths),
                           positions |-> PositionsOf(filled, r)])]

\* one iteration of the publish thread: publish_context_info(), then the poll
\* of publish_stop_channel
CMPublishIter ==
    /\ publishLoop = "running"
    /\ IF PublishPanics(filled_orders_info_store)
       THEN /\ publishLoop' = "panicked"
            /\ UNCHANGED <<info_senders, cmStopPc>>
       ELSE /\ info_senders' = publish_context_info(info_senders, depth_info,
                                                    filled_orders_info_store)
            /\ IF cmStopPc = "publishStop"
               THEN publishLoop' = "none" /\ cmStopPc' = "updateStop"
               ELSE UNCHANGED <<publishLoop, cmStopPc>>
    /\ UNCHANGED <<cmState, updateLoop, info_receiver, depth_info, active_orders_info,
                   filled_orders_info_store, positions_file, nGatewayMsgs, cmCall, cmStops>>
    /\ UNCHANGED <<omVars, gwVars, robotVars, unitVars, platformVars, activeVars, configVars, passVars>>

\* ContextManager::handle_depth: the entry of the exchange becomes the map
\* holding the one symbol of the message
handle_depth(depths, info) ==
    Put(depths, info.exchange_name, Put(EmptyMap, info.symbol, info))

\* ContextManager::handle_active_order
handle_active_order(actives, order) == Put(actives, order.custom_order_id, order)

\* a write_filled_info that starts the robot's history anew with the fill
write_filled_info_Replace(filled, active_order, filled_order) ==
    Put(filled, active_order.robot_id,
        <<[order_id |-> 0,
           custom_order_id |-> active_order.custom_order_id,
           gateway |-> active_order.gateway,
           robot_id |-> active_order.robot_id,
           symbol |-> active_order.symbol,
           amount |-> filled_order.amount,
           price |-> active_order.price,
           order_side |-> active_order.order_side,
           strategy_params |-> active_order.strategy_params]>>)

\* ContextManager::write_filled_info
write_filled_info(filled, active_order, filled_order) ==
    LET filled_info == [order_id |-> 0,
                        custom_order_id |-> active_order.custom_order_id,
                        gateway |-> active_order.gateway,
                        robot_id |-> active_order.robot_id,
                        symbol |-> active_order.symbol,
                        amount |-> filled_order.amount,
                        price |-> active_order.price,
                        order_side |-> active_order.order_side,
                        strategy_params |-> active_order.strategy_params]
    IN IF active_order.robot_id \in DOMAIN filled
       THEN Put(filled, active_order.robot_id, Append(filled[active_order.robot_id], filled_info))
       ELSE Put(filled, active_order.robot_id, <<filled_info>>)

\* a handle_filled_order that records the fill whether or not its order is known
handle_filled_order_Unchecked(filled, actives, filled_order) ==
    IF filled_order.custom_order_id \in DOMAIN actives
    THEN write_filled_info(filled, actives[filled_order.custom_order_id], filled_order)
    ELSE Put(filled, "R1", <<filled_order>>)

\* ContextManager::handle_filled_order on the fills: a fill of an unknown
\* custom order id is dropped
handle_filled_order(filled, actives, filled_order) ==
    IF filled_order.custom_order_id \in DOMAIN actives
    THEN write_filled_info(filled, actives[filled_order.custom_order_id], filled_order)
    ELSE filled

\* one iteration of the update thread: receive_context_info(), then the poll
\* of update_stop_channel
CMUpdateIter ==
    /\ updateLoop = "running"
    /\ IF info_receiver # <<>>
       THEN LET msg == Head(info_receiver)
            IN /\ info_receiver' = Tail(info_receiver)
               /\ depth_info' = IF msg.type = "DepthMsg"
                                THEN handle_depth(depth_info, msg.depth_info)
                                ELSE depth_info
               /\ active_orders_info' = IF msg.type = "ActiveOrder"
                                        THEN handle_active_order(active_orders_info, msg.active_order)
                                        ELSE active_orders_info
               /\ filled_orders_info_store' =
                     IF msg.type = "FilledOrder"
                     THEN handle_filled_order(filled_orders_info_store, active_orders_info,
                                              msg.filled_order)
                     ELSE filled_orders_info_store
               /\ positions_file' =
                     IF msg.type = "FilledOrder"
                        /\ msg.filled_order.custom_order_id \in DOMAIN active_orders_info
                     THEN filled_orders_info_store'
                     ELSE positions_file
       ELSE UNCHANGED <<info_receiver, depth_info, active_orders_info,
                        filled_orders_info_store, positions_file>>
    /\ IF cmStopPc = "updateStop"
       THEN updateLoop' = "none" /\ cmStopPc' = "finish"
       ELSE UNCHANGED <<updateLoop, cmStopPc>>
    /\ UNCHANGED <<cmState, publishLoop, info_senders, nGatewayMsgs, cmCall, cmStops>>
    /\ UNCHANGED <<omVars, gwVars, robotVars, unitVars, platformVars, activeVars, configVars, passVars>>

\* ContextManager::start from Stopped: the two threads are spawned and the
\* state becomes Started
CMStart ==
    /\ cmStopPc = "idle"
    /\ cmState = "Stopped"
    /\ cmState' = "Started"
    /\ publishLoop' = "running"
    /\ updateLoop' = "running"
    /\ cmCall' = [op |-> "start", res |-> "Ok"]
    /\ UNCHANGED <<cmStopPc, info_receiver, depth_info, active_orders_info,
                   filled_orders_info_store, positions_file, info_senders,
                   nGatewayMsgs, cmStops>>
    /\ UNCHANGED <<omVars, gwVars, robotVars, unitVars, platformVars, activeVars, configVars, passVars>>

\* ContextManager::start while Started: "Context Manager is already started"
CMStartErr ==
    /\ cmStopPc = "idle"
    /\ cmState = "Started"
    /\ cmCall' = [op |-> "start", res |-> "Err"]
    /\ UNCHANGED <<cmState, cmStopPc, publishLoop, updateLoop, info_receiver, depth_info,
                   active_orders_info, filled_orders_info_store, positions_file,
                   info_senders, nGatewayMsgs, cmStops>>
    /\ UNCHANGED <<omVars, gwVars, robotVars, unitVars, platformVars, activeVars, configVars, passVars>>

\* ContextManager::stop while Started: it holds the state lock and blocks in the
\* send on publish_stop_channel, then in the send on update_stop_channel
CMStop ==
    /\ cmStopPc = "idle"
    /\ cmState = "Started"
    /\ cmStops < MaxStops
    /\ cmStopPc' = "publishStop"
    /\ cmCall' = [op |-> "stop", res |-> "pending"]
    /\ cmStops' = cmStops + 1
    /\ UNCHANGED <<cmState, publishLoop, updateLoop, info_receiver, depth_info,
                   active_orders_info, filled_orders_info_store, positions_file,
                   info_senders, nGatewayMsgs>>
    /\ UNCHANGED <<omVars, gwVars, robotVars, unitVars, platformVars, activeVars, configVars, passVars>>

\* ContextManager::stop while Stopped: "Context Manager is already stopped"
CMStopErr ==
    /\ cmStopPc = "idle"
    /\ cmState = "Stopped"
    /\ cmCall' = [op |-> "stop", res |-> "Err"]
    /\ UNCHANGED <<cmState, cmStopPc, publishLoop, updateLoop, info_receiver, depth_info,
                   active_orders_info, filled_orders_info_store, positions_file,
                   info_senders, nGatewayMsgs, cmStops>>
    /\ UNCHANGED <<omVars, gwVars, robotVars, unitVars, platformVars, activeVars, configVars, passVars>>

\* the rest of ContextManager::stop once both stop signals were taken
CMStopFinish ==
    /\ cmStopPc = "finish"
    /\ cmState' = "Stopped"
    /\ cmStopPc' = "idle"
    /\ cmCall' = [op |-> "stop", res |-> "Ok"]
    /\ UNCHANGED <<publishLoop, updateLoop, info_receiver, depth_info, active_orders_info,
                   filled_orders_info_store, positions_file, info_senders,
                   nGatewayMsgs, cmStops>>
    /\ UNCHANGED <<omVars, gwVars, robotVars, unitVars, platformVars, activeVars, configVars, passVars>>

\* ================================================================= Gateway

\* number of order batches the Order Manager sends to the gateway in one run
MaxGwBatches == 2

\* the free balance of the account in the quote currency, as the stub exchange
\* of fetch_balances reports it
balance_quote == 150

\* the batches the gateway may get: a market order, the Cancel of a limit
\* order, a Cancel followed by a market order, a limit order, a limit order
\* followed by its Cancel, a limit order whose price is above the balance
GwBatchMenu ==
    {<<OrderContainer("R1", "Market", GwBinance, 0, 0)>>,
     <<convert_limit_to_cancel(OrderContainer("R1", "Limit", GwBinance, 100, 1))>>,
     <<convert_limit_to_cancel(OrderContainer("R1", "Limit", GwBinance, 100, 3)),
       OrderContainer("R1", "Market", GwBinance, 0, 4)>>,
     <<OrderContainer("R1", "Limit", GwBinance, 101, 2)>>,
     <<OrderContainer("R1", "Limit", GwBinance, 100, 5),
       convert_limit_to_cancel(OrderContainer("R1", "Limit", GwBinance, 100, 5))>>,
     <<OrderContainer("R1", "Limit", GwBinance, 151, 6)>>}

\* Gateway::from_params
GWInit ==
    /\ gwStatus = "Stopped"
    /\ gwStopPc = "idle"
    /\ receiveLoop = "none"
    /\ orderLoop = "none"
    /\ feedThreads = 0
    /\ orders_receiver = <<>>
    /\ order_containers = <<>>
    /\ queuePoisoned = FALSE
    /\ exchangeLog = <<>>
    /\ nGwBatches = 0
    /\ gwCall = NoCall
    /\ gwStops = 0

\* the Order Manager sends a batch on the gateway's channel
OrdersArrive ==
    /\ nGwBatches < MaxGwBatches
    /\ \E batch \in GwBatchMenu : orders_receiver' = Append(orders_receiver, batch)
    /\ nGwBatches' = nGwBatches + 1
    /\ UNCHANGED <<gwStatus, gwStopPc, receiveLoop, orderLoop, feedThreads,
                   order_containers, queuePoisoned, exchangeLog, gwCall, gwStops>>
    /\ UNCHANGED <<omVars, cmVars, robotVars, unitVars, platformVars, activeVars, configVars, passVars>>

\* a stop() that needs one of the two loops only to take its signal
GwTakeStop_Once(pc) == "finish"

\* the poll of Gateway.stop_channel, which both loops share: a stop() call
\* blocked in its first send goes on to the second, one blocked in the second
\* goes on to the end
GwTakeStop(pc) == IF pc = "first" THEN "second" ELSE "finish"

\* one iteration of the receiving thread: receive_order(), then the poll of
\* stop_channel.  With the queue's lock poisoned the batch is dropped.
GWReceiveIter ==
    /\ receiveLoop = "running"
    /\ IF orders_receiver # <<>>
       THEN /\ orders_receiver' = Tail(orders_receiver)
            /\ order_containers' = IF queuePoisoned THEN order_containers
                                   ELSE order_containers \o Head(orders_receiver)
       ELSE UNCHANGED <<orders_receiver, order_containers>>
    /\ IF gwStopPc \in {"first", "second"}
       THEN receiveLoop' = "none" /\ gwStopPc' = GwTakeStop(gwStopPc)
       ELSE UNCHANGED <<receiveLoop, gwStopPc>>
    /\ ROBOT_TO_GATEWAY_TIMES' =
          (\/ ROBOT_TO_GATEWAY_TIMES
           \/ /\ orders_receiver # <<>>
              /\ \E i \in 1..Len(Head(orders_receiver)) :
                    Head(orders_receiver)[i].kind = "Limit")
    /\ UNCHANGED <<gwStatus, orderLoop, feedThreads, queuePoisoned, exchangeLog,
                   nGwBatches, gwCall, gwStops>>
    /\ UNCHANGED <<omVars, cmVars, robotVars, unitVars, activeVars, configVars, passVars>>
    /\ UNCHANGED <<platformStatus, platformPc, platformCall, GATEWAY_TO_ROBOT_TIMES>>

\* an order_sender in which the exchange's rejection of a Cancel ends the thread
order_sender_RejectionStops(st, oc) ==
    IF oc.kind = "Limit" \/ (oc.kind = "Cancel" /\ oc.custom_order_id \in st.rejected)
    THEN [st EXCEPT !.panic = TRUE]
    ELSE [st EXCEPT !.log = Append(st.log, [kind |-> oc.kind, robot_id |-> oc.robot_id,
                                            custom_order_id |-> oc.custom_order_id,
                                            outcome |-> "done"])]

\* Gateway::order_sender: a market order and a Cancel are requests to the
\* exchange, which carries them out or rejects them (st.rejected); cancel_order
\* returns Ok either way, the error of a rejected market order goes back to
\* send_order.  For a limit order it calls tokio::spawn, and the thread it runs
\* on was made by thread::spawn and is in no runtime, so the call panics
order_sender(st, oc) ==
    IF oc.kind = "Limit"
    THEN [st EXCEPT !.panic = TRUE]
    ELSE [st EXCEPT !.log = Append(st.log, [kind |-> oc.kind, robot_id |-> oc.robot_id,
                                            custom_order_id |-> oc.custom_order_id,
                                            outcome |-> IF oc.custom_order_id \in st.rejected
                                                        THEN "rejected" ELSE "done"])]

\* Gateway::send_order: the queue is drained from the front, each container
\* goes to order_sender, whose error is logged
RECURSIVE send_order(_)
send_order(st) ==
    IF st.queue = <<>> \/ st.panic THEN st
    ELSE send_order(order_sender([st EXCEPT !.queue = Tail(st.queue)], Head(st.queue)))

\* the custom order ids of the requests in the queue
RequestIds(queue) ==
    {queue[i].custom_order_id : i \in {j \in 1..Len(queue) : queue[j].kind # "Limit"}}

\* one iteration of the sending thread: send_order(), then the poll of stop_channel
GWSendIter ==
    /\ orderLoop = "running"
    /\ \E rejected \in SUBSET RequestIds(order_containers) :
       LET st == IF queuePoisoned
                 THEN [queue |-> order_containers, log |-> exchangeLog, panic |-> FALSE,
                       rejected |-> rejected]
                 ELSE send_order([queue |-> order_containers, log |-> exchangeLog,
                                  panic |-> FALSE, rejected |-> rejected])
       IN /\ order_containers' = st.queue
          /\ exchangeLog' = st.log
          /\ queuePoisoned' = (queuePoisoned \/ st.panic)
          /\ IF st.panic
             THEN orderLoop' = "panicked" /\ UNCHANGED gwStopPc
             ELSE IF gwStopPc \in {"first", "second"}
                  THEN orderLoop' = "none" /\ gwStopPc' = GwTakeStop(gwStopPc)
                  ELSE UNCHANGED <<orderLoop, gwStopPc>>
    /\ UNCHANGED <<gwStatus, receiveLoop, feedThreads, orders_receiver, nGwBatches,
                   gwCall, gwStops>>
    /\ UNCHANGED <<omVars, cmVars, robotVars, unitVars, platformVars, activeVars, configVars, passVars>>

\* Gateway::start from Stopped: the receiving and the sending thread and the
\* two feed threads (send_info, receive_filled_orders) are spawned, the status
\* becomes Active
GWStart ==
    /\ gwStopPc = "idle"
    /\ gwStatus = "Stopped"
    /\ gwStatus' = "Active"
    /\ receiveLoop' = "running"
    /\ orderLoop' = "running"
    /\ feedThreads' = feedThreads + 2
    /\ gwCall' = [op |-> "start", res |-> "Ok"]
    /\ UNCHANGED <<gwStopPc, orders_receiver, order_containers, queuePoisoned,
                   exchangeLog, nGwBatches, gwStops>>
    /\ UNCHANGED <<omVars, cmVars, robotVars, unitVars, platformVars, activeVars, configVars, passVars>>

\* Gateway::start while Active: "Gateway ... is already running"
GWStartErr ==
    /\ gwStopPc = "idle"
    /\ gwStatus = "Active"
    /\ gwCall' = [op |-> "start", res |-> "Err"]
    /\ UNCHANGED <<gwStatus, gwStopPc, receiveLoop, orderLoop, feedThreads,
                   orders_receiver, order_containers, queuePoisoned, exchangeLog,
                   nGwBatches, gwStops>>
    /\ UNCHANGED <<omVars, cmVars, robotVars, unitVars, platformVars, activeVars, configVars, passVars>>

\* Gateway::stop while Active: it holds the status lock and blocks in the first
\* send on stop_channel, then in the second
GWStop ==
    /\ gwStopPc = "idle"
    /\ gwStatus = "Active"
    /\ gwStops < MaxStops
    /\ gwStopPc' = "first"
    /\ gwCall' = [op |-> "stop", res |-> "pending"]
    /\ gwStops' = gwStops + 1
    /\ UNCHANGED <<gwStatus, receiveLoop, orderLoop, feedThreads, orders_receiver,
                   order_containers, queuePoisoned, exchangeLog, nGwBatches>>
    /\ UNCHANGED <<omVars, cmVars, robotVars, unitVars, platformVars, activeVars, configVars, passVars>>

\* a stop() of a stopped Gateway that signals the loops all the same
GWStopErr_Signals ==
    /\ gwStopPc = "idle"
    /\ gwStatus = "Stopped"
    /\ gwStopPc' = "first"
    /\ gwCall' = [op |-> "stop", res |-> "Err"]
    /\ UNCHANGED <<gwStatus, receiveLoop, orderLoop, feedThreads,
                   orders_receiver, order_containers, queuePoisoned, exchangeLog,
                   nGwBatches, gwStops>>
    /\ UNCHANGED <<omVars, cmVars, robotVars, unitVars, platformVars, activeVars, configVars, passVars>>

\* Gateway::stop while Stopped: "Gateway is not running"
GWStopErr ==
    /\ gwStopPc = "idle"
    /\ gwStatus = "Stopped"
    /\ gwCall' = [op |-> "stop", res |-> "Err"]
    /\ UNCHANGED <<gwStatus, gwStopPc, receiveLoop, orderLoop, feedThreads,
                   orders_receiver, order_containers, queuePoisoned, exchangeLog,
                   nGwBatches, gwStops>>
    /\ UNCHANGED <<omVars, cmVars, robotVars, unitVars, platformVars, activeVars, configVars, passVars>>

\* the rest of Gateway::stop once both sends were taken
GWStopFinish ==
    /\ gwStopPc = "finish"
    /\ gwStatus' = "Stopped"
    /\ gwStopPc' = "idle"
    /\ gwCall' = [op |-> "stop", res |-> "Ok"]
    /\ UNCHANGED <<receiveLoop, orderLoop, feedThreads, orders_receiver,
                   order_containers, queuePoisoned, exchangeLog, nGwBatches, gwStops>>
    /\ UNCHANGED <<omVars, cmVars, robotVars, unitVars, platformVars, activeVars, configVars, passVars>>

\* =================================================================== Robot

\* number of ContextMsgs the Context Manager sends to the robot in one run
MaxCtx == 2

\* number of order batches the robot's main cycle sends in one run
MaxBatches == 2

\* RiskLimit.max_loss and RiskLimit.stop_loss of the robot
max_loss == 10

stop_loss == 1

\* the length of a chain of bad deals that locks the robot
NUMBER_OF_BAD_DEALS == 16

\* the largest and the smallest i32
I32Max == 2147483647

I32Min == (0 - I32Max) - 1

\* a + b of two i32 leaves the range of i32
AddOverflows(a, b) ==
    \/ (b > 0 /\ a > I32Max - b)
    \/ (b < 0 /\ a < I32Min - b)

\* a + b of two i32 as a build without overflow checks computes it: the sum
\* modulo 2^32, taken in the range of i32
WrappingAdd(a, b) ==
    IF b > 0 /\ a > I32Max - b THEN ((a - I32Max) - 1) + ((b - I32Max) - 1)
    ELSE IF b < 0 /\ a < I32Min - b THEN ((a + I32Max) + 1) + ((b + I32Max) + 1)
    ELSE a + b

Position(side, amount, price) ==
    [gateway |-> GwBinance, symbol |-> "BTCUSDT", amount |-> amount, price |-> price,
     order_side |-> side, strategy_params |-> "S"]

\* the positions a ContextInfo may carry: none, a sale, a sale at the largest
\* price an i32 holds, a small and a large purchase, and sixteen sales each at a
\* lower price than the one before
PositionsMenu ==
    {<<>>,
     <<Position("Sell", 1, 5)>>,
     <<Position("Sell", 1, I32Max)>>,
     <<Position("Buy", 1, 3)>>,
     <<Position("Buy", 1, 12)>>,
     [i \in 1..NUMBER_OF_BAD_DEALS |-> Position("Sell", 1, NUMBER_OF_BAD_DEALS + 1 - i)]}

\* RiskControl::calc_pnl; amounts and prices are whole numbers here, on which
\* ceil() changes nothing
RECURSIVE calc_pnl(_)
calc_pnl(positions) ==
    IF positions = <<>> THEN 0
    ELSE (IF Head(positions).order_side = "Buy"
          THEN 0 - Head(positions).amount * Head(positions).price
          ELSE Head(positions).amount * Head(positions).price)
         + calc_pnl(Tail(positions))

\* RiskControl::check_max_loss in a build with overflow checks panics
\* ("attempt to add with overflow") when limit + pnl leaves the range of i32
check_max_loss_panics(limit, pnl, overflow_checks) ==
    overflow_checks /\ AddOverflows(limit, pnl)

\* RiskControl::check_max_loss where it does not panic
check_max_loss(limit, pnl) == WrappingAdd(limit, pnl) <= 0

\* RiskControl::check_stop_loss, with the high-water mark check_risk has updated
check_stop_loss(pnl, high) == pnl < 0 /\ stop_loss <= high + pnl

\* the positions of one side, in order
RECURSIVE SelectSide(_, _)
SelectSide(positions, side) ==
    IF positions = <<>> THEN <<>>
    ELSE IF Head(positions).order_side = side
         THEN <<Head(positions)>> \o SelectSide(Tail(positions), side)
         ELSE SelectSide(Tail(positions), side)

\* a get_last_positions that wants more than count positions
HasLast_Strict(positions, count) == Len(positions) > count

\* RiskControl::get_last_positions: the last count positions, if there are as many
HasLast(positions, count) == Len(positions) >= count

get_last_positions(positions, count) ==
    SubSeq(positions, Len(positions) - count + 1, Len(positions))

\* RiskControl::_check_bids: the last count sales never rose in price
_check_bids(positions, count) ==
    /\ HasLast(positions, count)
    /\ LET last == get_last_positions(positions, count)
       IN \A i \in 2..Len(last) : ~(last[i].price > last[i - 1].price)

\* RiskControl::check_bids
check_bids(positions) == _check_bids(positions, NUMBER_OF_BAD_DEALS)

\* RiskControl::_check_asks: the last count purchases never fell in price
_check_asks(positions, count) ==
    /\ HasLast(positions, count)
    /\ LET last == get_last_positions(positions, count)
       IN \A i \in 2..Len(last) : ~(last[i].price < last[i - 1].price)

\* RiskControl::check_asks
check_asks(positions) == _check_asks(positions, NUMBER_OF_BAD_DEALS)

\* RiskControl::check_bad_deal_chain_sequence
check_bad_deal_chain_sequence(positions) ==
    \/ check_bids(SelectSide(positions, "Sell"))
    \/ check_asks(SelectSide(positions, "Buy"))

\* a check_risk that stores the PnL of every evaluation
NewMaxPnl_Overwrite(positions, high) == calc_pnl(positions)

\* the high-water mark after RiskControl::check_risk
NewMaxPnl(positions, high) ==
    IF calc_pnl(positions) > high THEN calc_pnl(positions) ELSE high

\* RiskControl::check_risk: TRUE when the robot is to be locked
check_risk(positions, high) ==
    \/ check_max_loss(max_loss, calc_pnl(positions))
    \/ check_stop_loss(calc_pnl(positions), NewMaxPnl(positions, high))
    \/ check_bad_deal_chain_sequence(positions)

NoRobotCall == [op |-> "none", res |-> "none", both |-> FALSE]

\* Robot::from_params
RobotInit ==
    /\ robotStatus = "Stopped"
    /\ statusPoisoned = FALSE
    /\ robotStopPc = "idle"
    /\ mainLoop = "none"
    /\ infoLoop = "none"
    /\ context_info_receiver = <<>>
    /\ max_pnl = 0
    /\ batchesSent = 0
    /\ finishCount = 0
    /\ nContextMsgs = 0
    /\ robotCall = NoRobotCall

\* the Context Manager sends a ContextInfo with the robot's positions
ContextArrives ==
    /\ nContextMsgs < MaxCtx
    /\ \E positions \in PositionsMenu :
          context_info_receiver' = Append(context_info_receiver, positions)
    /\ nContextMsgs' = nContextMsgs + 1
    /\ UNCHANGED <<robotStatus, statusPoisoned, robotStopPc, mainLoop, infoLoop,
                   max_pnl, batchesSent, finishCount, robotCall>>
    /\ UNCHANGED <<omVars, cmVars, gwVars, unitVars, platformVars, activeVars, configVars, passVars>>

\* Robot::start from Stopped: the status becomes Active, the strategy is
\* started, the main-cycle thread and the info thread are spawned
RobotStart ==
    /\ robotStopPc = "idle"
    /\ ~ statusPoisoned
    /\ robotStatus = "Stopped"
    /\ robotStatus' = "Active"
    /\ mainLoop' = "running"
    /\ infoLoop' = "running"
    /\ robotCall' = [op |-> "start", res |-> "Ok", both |-> FALSE]
    /\ UNCHANGED <<statusPoisoned, robotStopPc, context_info_receiver, max_pnl,
                   batchesSent, finishCount, nContextMsgs>>
    /\ UNCHANGED <<omVars, cmVars, gwVars, unitVars, platformVars, activeVars, configVars, passVars>>

\* a start() that puts a running or locked robot back to Active
RobotStartErr_Restarts ==
    /\ robotStopPc = "idle"
    /\ statusPoisoned \/ robotStatus \in {"Active", "Locked"}
    /\ robotStatus' = "Active"
    /\ robotCall' = [op |-> "start", res |-> "Ok", both |-> FALSE]
    /\ UNCHANGED <<statusPoisoned, robotStopPc, mainLoop, infoLoop,
                   context_info_receiver, max_pnl, batchesSent, finishCount, nContextMsgs>>
    /\ UNCHANGED <<omVars, cmVars, gwVars, unitVars, platformVars, activeVars, configVars, passVars>>

\* Robot::start while Active ("Robot is already running"), while Locked
\* ("Robot is locked") or with the status lock poisoned ("Lock error")
RobotStartErr ==
    /\ robotStopPc = "idle"
    /\ statusPoisoned \/ robotStatus \in {"Active", "Locked"}
    /\ robotCall' = [op |-> "start", res |-> "Err", both |-> FALSE]
    /\ UNCHANGED <<robotStatus, statusPoisoned, robotStopPc, mainLoop, infoLoop,
                   context_info_receiver, max_pnl, batchesSent, finishCount, nContextMsgs>>
    /\ UNCHANGED <<omVars, cmVars, gwVars, unitVars, platformVars, activeVars, configVars, passVars>>

\* Robot::stop while Active: it holds the status lock and blocks in send_stop's
\* send on stop_channel until a loop polls the channel
RobotStop ==
    /\ robotStopPc = "idle"
    /\ ~ statusPoisoned
    /\ robotStatus = "Active"
    /\ robotStopPc' = "send"
    /\ robotCall' = [op |-> "stop", res |-> "pending",
                     both |-> (mainLoop = "running" /\ infoLoop = "running")]
    /\ UNCHANGED <<robotStatus, statusPoisoned, mainLoop, infoLoop, context_info_receiver,
                   max_pnl, batchesSent, finishCount, nContextMsgs>>
    /\ UNCHANGED <<omVars, cmVars, gwVars, unitVars, platformVars, activeVars, configVars, passVars>>

\* Robot::stop while Stopped ("Robot is not running"), while Locked ("Robot is
\* locked") or with the status lock poisoned ("Lock error")
RobotStopErr ==
    /\ robotStopPc = "idle"
    /\ statusPoisoned \/ robotStatus \in {"Stopped", "Locked"}
    /\ robotCall' = [op |-> "stop", res |-> "Err", both |-> FALSE]
    /\ UNCHANGED <<robotStatus, statusPoisoned, robotStopPc, mainLoop, infoLoop,
                   context_info_receiver, max_pnl, batchesSent, finishCount, nContextMsgs>>
    /\ UNCHANGED <<omVars, cmVars, gwVars, unitVars, platformVars, activeVars, configVars, passVars>>

\* whether a thread blocks in a receive on the robot's stop_channel: both loops
\* poll it with try_recv and never wait on it
ReceiverWaits == FALSE

\* the rest of Robot::stop after the first stop signal was taken: send_stop's
\* try_send(()).unwrap() on the channel of capacity zero succeeds only when a
\* receiver waits and panics otherwise, with the status lock held; after
\* send_stop the status becomes Stopped and the strategy's finish() is called
RobotStopTrySend ==
    /\ robotStopPc = "trySend"
    /\ robotStopPc' = "idle"
    /\ IF ReceiverWaits
       THEN /\ robotStatus' = "Stopped"
            /\ finishCount' = finishCount + 1
            /\ robotCall' = [robotCall EXCEPT !.res = "Ok"]
            /\ UNCHANGED statusPoisoned
       ELSE /\ statusPoisoned' = TRUE
            /\ robotCall' = [robotCall EXCEPT !.res = "panic"]
            /\ UNCHANGED <<robotStatus, finishCount>>
    /\ UNCHANGED <<mainLoop, infoLoop, context_info_receiver, max_pnl, batchesSent,
                   nContextMsgs>>
    /\ UNCHANGED <<omVars, cmVars, gwVars, unitVars, platformVars, activeVars, configVars, passVars>>

\* Robot::lock while Active: the status becomes Locked
RobotLock ==
    /\ robotStopPc = "idle"
    /\ ~ statusPoisoned
    /\ robotStatus = "Active"
    /\ robotStatus' = "Locked"
    /\ robotCall' = [op |-> "lock", res |-> "Ok", both |-> FALSE]
    /\ UNCHANGED <<statusPoisoned, robotStopPc, mainLoop, infoLoop, context_info_receiver,
                   max_pnl, batchesSent, finishCount, nContextMsgs>>
    /\ UNCHANGED <<omVars, cmVars, gwVars, unitVars, platformVars, activeVars, configVars, passVars>>

\* Robot::lock while Stopped ("Can't locked Robot, Robot is stopped"), while
\* Locked ("Robot is already locked") or with the status lock poisoned
RobotLockErr ==
    /\ robotStopPc = "idle"
    /\ statusPoisoned \/ robotStatus \in {"Stopped", "Locked"}
    /\ robotCall' = [op |-> "lock", res |-> "Err", both |-> FALSE]
    /\ UNCHANGED <<robotStatus, statusPoisoned, robotStopPc, mainLoop, infoLoop,
                   context_info_receiver, max_pnl, batchesSent, finishCount, nContextMsgs>>
    /\ UNCHANGED <<omVars, cmVars, gwVars, unitVars, platformVars, activeVars, configVars, passVars>>

\* one iteration of the main-cycle thread: main_cycle() sends the batch of
\* orders the strategy calculated when there are orders, then the poll of
\* stop_channel.  The status is not read.
RobotMainIter ==
    /\ mainLoop = "running"
    /\ \E orders \in BOOLEAN :
          batchesSent' = IF orders /\ batchesSent < MaxBatches
                         THEN batchesSent + 1 ELSE batchesSent
    /\ IF robotStopPc = "send"
       THEN mainLoop' = "exited" /\ robotStopPc' = "trySend"
       ELSE UNCHANGED <<mainLoop, robotStopPc>>
    /\ UNCHANGED <<robotStatus, statusPoisoned, infoLoop, context_info_receiver,
                   max_pnl, finishCount, nContextMsgs, robotCall>>
    /\ UNCHANGED <<omVars, cmVars, gwVars, unitVars, platformVars, activeVars, configVars, passVars>>

\* the info thread after self.lock().unwrap() in receive_info: Locked was
\* returned and the loop ends, or lock() failed and the thread panicked
AfterLock(status, poisoned) ==
    IF poisoned \/ status # "Active" THEN "panicked" ELSE "exited"

\* one iteration of the info thread: receive_info() takes a ContextInfo, asks
\* Risk Control and locks the robot when it says so (waiting for the status lock
\* when a stop() call holds it), then the poll of stop_channel
RobotInfoIter ==
    /\ infoLoop = "running"
    /\ IF context_info_receiver # <<>>
       THEN /\ context_info_receiver' = Tail(context_info_receiver)
            /\ max_pnl' = NewMaxPnl(Head(context_info_receiver), max_pnl)
            /\ \E overflow_checks \in BOOLEAN :
                  IF check_max_loss_panics(max_loss, calc_pnl(Head(context_info_receiver)),
                                           overflow_checks)
                  THEN /\ infoLoop' = "panicked"
                       /\ UNCHANGED <<robotStatus, robotStopPc>>
                  ELSE IF check_risk(Head(context_info_receiver), max_pnl)
                  THEN IF robotStopPc # "idle"
                       THEN /\ infoLoop' = "locking"
                            /\ UNCHANGED <<robotStatus, robotStopPc>>
                       ELSE /\ infoLoop' = AfterLock(robotStatus, statusPoisoned)
                            /\ robotStatus' =
                                  IF AfterLock(robotStatus, statusPoisoned) = "exited"
                                  THEN "Locked" ELSE robotStatus
                            /\ UNCHANGED robotStopPc
                  ELSE /\ UNCHANGED robotStatus
                       /\ IF robotStopPc = "send"
                          THEN infoLoop' = "exited" /\ robotStopPc' = "trySend"
                          ELSE UNCHANGED <<infoLoop, robotStopPc>>
       ELSE /\ UNCHANGED <<context_info_receiver, max_pnl, robotStatus>>
            /\ IF robotStopPc = "send"
               THEN infoLoop' = "exited" /\ robotStopPc' = "trySend"
               ELSE UNCHANGED <<infoLoop, robotStopPc>>
    /\ GATEWAY_TO_ROBOT_TIMES' = (GATEWAY_TO_ROBOT_TIMES \/ context_info_receiver # <<>>)
    /\ UNCHANGED <<statusPoisoned, mainLoop, batchesSent, finishCount, nContextMsgs,
                   robotCall>>
    /\ UNCHANGED <<omVars, cmVars, gwVars, unitVars, activeVars, configVars, passVars>>
    /\ UNCHANGED <<platformStatus, platformPc, platformCall, ROBOT_TO_GATEWAY_TIMES>>

\* the info thread gets the status lock it waited for in lock()
RobotInfoLocks ==
    /\ infoLoop = "locking"
    /\ robotStopPc = "idle"
    /\ infoLoop' = AfterLock(robotStatus, statusPoisoned)
    /\ robotStatus' = IF AfterLock(robotStatus, statusPoisoned) = "exited"
                      THEN "Locked" ELSE robotStatus
    /\ UNCHANGED <<statusPoisoned, robotStopPc, mainLoop, context_info_receiver, max_pnl,
                   batchesSent, finishCount, nContextMsgs, robotCall>>
    /\ UNCHANGED <<omVars, cmVars, gwVars, unitVars, platformVars, activeVars, configVars, passVars>>

\* ------------------------------------------------------------ active orders

\* number of ActiveOrderMsg the gateways send in one run
MaxActive == 3

\* Platform::internal_init makes the channel, OrderManager::init the empty store
ActiveInit ==
    /\ active_order_msg_receiver = <<>>
    /\ active_orders = [x \in {} |-> <<>>]

\* the ActiveOrder of an accepted limit order, as order_sender builds it
ActiveOrder(robot, id, price) ==
    [custom_order_id |-> id, robot_id |-> robot, gateway |-> GwBinance,
     symbol |-> "BTCUSDT", amount |-> 1, price |-> price,
     order_side |-> "Buy", strategy_params |-> "S"]

ActiveOrderMenu ==
    {ActiveOrder("R1", 1, 100), ActiveOrder("R1", 2, 101), ActiveOrder("R2", 3, 102)}

\* Gateway::save_active_order: an ActiveStateOrder goes on the channel to the
\* Order Manager
save_active_order(chan, active_order) ==
    Append(chan, [type |-> "ActiveStateOrder", active_order |-> active_order])

\* a gateway whose exchange accepted a limit order calls save_active_order
ActiveOrderArrives ==
    /\ Len(active_order_msg_receiver) < MaxActive
    /\ \E a \in ActiveOrderMenu :
          active_order_msg_receiver' = save_active_order(active_order_msg_receiver, a)
    /\ UNCHANGED active_orders
    /\ UNCHANGED <<omVars, cmVars, gwVars, robotVars, unitVars, platformVars, configVars, passVars>>

\* OrderManager::handle_active_order on the store: an ActiveStateOrder is pushed
\* on the list of its robot; the arm of FilledOrder holds only comments
om_handle_active_order(store, msg) ==
    IF msg.type = "ActiveStateOrder"
    THEN LET robot_id == msg.active_order.robot_id
         IN IF robot_id \in DOMAIN store
            THEN Put(store, robot_id, Append(store[robot_id], msg.active_order))
            ELSE Put(store, robot_id, <<msg.active_order>>)
    ELSE store

\* ----------------------------------------------------------------- Platform

\* Platform::internal_init
PlatformInit ==
    /\ platformStatus = "Stopped"
    /\ platformPc = "idle"
    /\ platformCall = [op |-> "none", from |-> "none", res |-> "none"]
    /\ ROBOT_TO_GATEWAY_TIMES = FALSE
    /\ GATEWAY_TO_ROBOT_TIMES = FALSE

\* a call of the Platform begins: the records of the components' last calls
\* are cleared, the components themselves are left as they are
CallsCleared ==
    /\ omCall' = NoCall
    /\ cmCall' = NoCall
    /\ gwCall' = NoCall
    /\ robotCall' = NoRobotCall
    /\ UNCHANGED <<omState, omStopPc, askLoop, sendLoop, locksPoisoned, inbox,
                   wanted_orders, sent_orders, gwLog, nSubmitted, omStops>>
    /\ UNCHANGED <<cmState, cmStopPc, publishLoop, updateLoop, info_receiver, depth_info,
                   active_orders_info, filled_orders_info_store, positions_file,
                   info_senders, nGatewayMsgs, cmStops>>
    /\ UNCHANGED <<gwStatus, gwStopPc, receiveLoop, orderLoop, feedThreads, orders_receiver,
                   order_containers, queuePoisoned, exchangeLog, nGwBatches, gwStops>>
    /\ UNCHANGED <<robotStatus, statusPoisoned, robotStopPc, mainLoop, infoLoop,
                   context_info_receiver, max_pnl, batchesSent, finishCount, nContextMsgs>>
    /\ UNCHANGED <<unitVars, timesVars, activeVars, configVars, passVars>>

\* the call of the Platform returns
Returns(res) ==
    /\ platformPc' = "idle"
    /\ platformCall' = [platformCall EXCEPT !.res = res]

\* Platform::start while Active: "Platform is already running"
PlatformStartErr ==
    /\ platformPc = "idle"
    /\ platformStatus = "Active"
    /\ platformCall' = [op |-> "start", from |-> "Active", res |-> "Err"]
    /\ UNCHANGED <<platformStatus, platformPc, timesVars>>
    /\ UNCHANGED <<omVars, cmVars, gwVars, robotVars, unitVars, activeVars, configVars, passVars>>

\* Platform::start while Stopped: the status becomes Active before any
\* component is started
PlatformStart ==
    /\ platformPc = "idle"
    /\ platformStatus = "Stopped"
    /\ platformStatus' = "Active"
    /\ platformPc' = "startRobots"
    /\ platformCall' = [op |-> "start", from |-> "Stopped", res |-> "pending"]
    /\ CallsCleared

\* start_all_robots, start_all_gateways, context_manager.start and
\* order_manager.start as Platform::start calls them
PlatformStartsRobot ==
    /\ platformPc = "startRobots"
    /\ robotCall.op = "none"
    /\ (RobotStart \/ RobotStartErr)

PlatformStartsGateway ==
    /\ platformPc = "startGateways"
    /\ gwCall.op = "none"
    /\ (GWStart \/ GWStartErr)

PlatformStartsCM ==
    /\ platformPc = "startCM"
    /\ cmCall.op = "none"
    /\ (CMStart \/ CMStartErr)

PlatformStartsOM ==
    /\ platformPc = "startOM"
    /\ omCall.op = "none"
    /\ (OMStart \/ OMStartErr)

\* Platform::start goes on after a component's start() returned: an Err is
\* returned at once (the ? operator), with the status left Active
\* (sensor_manager.start(), the last call, is left out: no component here reads
\* the sensors)
PlatformStartGoesOn ==
    /\ LET res == CASE platformPc = "startRobots" -> [op |-> robotCall.op, res |-> robotCall.res]
                    [] platformPc = "startGateways" -> gwCall
                    [] platformPc = "startCM" -> cmCall
                    [] platformPc = "startOM" -> omCall
                    [] OTHER -> NoCall
           next == CASE platformPc = "startRobots" -> "startGateways"
                     [] platformPc = "startGateways" -> "startCM"
                     [] platformPc = "startCM" -> "startOM"
                     [] OTHER -> "idle"
       IN /\ res.op = "start"
          /\ IF res.res = "Err" THEN Returns("Err")
             ELSE IF next = "idle" THEN Returns("Ok")
             ELSE platformPc' = next /\ UNCHANGED platformCall
    /\ UNCHANGED <<platformStatus, timesVars>>
    /\ UNCHANGED <<omVars, cmVars, gwVars, robotVars, unitVars, activeVars, configVars, passVars>>

\* Platform::stop while Stopped: "Platform is already stopped"
PlatformStopErr ==
    /\ platformPc = "idle"
    /\ platformStatus = "Stopped"
    /\ platformCall' = [op |-> "stop", from |-> "Stopped", res |-> "Err"]
    /\ UNCHANGED <<platformStatus, platformPc, timesVars>>
    /\ UNCHANGED <<omVars, cmVars, gwVars, robotVars, unitVars, activeVars, configVars, passVars>>

\* Platform::stop while Active
PlatformStop ==
    /\ platformPc = "idle"
    /\ platformStatus = "Active"
    /\ platformPc' = "stopRobots"
    /\ platformCall' = [op |-> "stop", from |-> "Active", res |-> "pending"]
    /\ UNCHANGED platformStatus
    /\ CallsCleared

\* robot.stop() of an Active robot, context_manager.stop(), order_manager.stop()
\* and gateway.stop() of an Active gateway as Platform::stop calls them
PlatformStopsRobot ==
    /\ platformPc = "stopRobots"
    /\ robotCall.op = "none"
    /\ RobotStop

PlatformStopsCM ==
    /\ platformPc = "stopCM"
    /\ cmCall.op = "none"
    /\ (CMStop \/ CMStopErr)

PlatformStopsOM ==
    /\ platformPc = "stopOM"
    /\ omCall.op = "none"
    /\ (OMStop \/ OMStopErr)

PlatformStopsGateway ==
    /\ platformPc = "stopGateways"
    /\ gwCall.op = "none"
    /\ GWStop

\* the first batch of orders reaches the gateway, the first ContextInfo the robot
PlatformOrders ==
    /\ nGwBatches = 0
    /\ OrdersArrive

PlatformContext ==
    /\ nContextMsgs = 0
    /\ ContextArrives

\* Platform::stop goes on.  robot.status().unwrap() panics on a poisoned status
\* lock, a robot that is not Active is passed over, robot.stop().unwrap() passes
\* a panic of Robot::stop on and panics on an Err; an Err of the Context
\* Manager, the Order Manager or a gateway is returned at once; a gateway that
\* is not Active is passed over; at the end the status becomes Stopped and
\* Metrics::init(..).unwrap() panics on a vector of durations that is empty
PlatformStopGoesOn ==
    /\ \/ /\ platformPc = "stopRobots"
          /\ \/ /\ robotCall.op = "none"
                /\ statusPoisoned
                /\ Returns("panic")
             \/ /\ robotCall.op = "none"
                /\ ~ statusPoisoned
                /\ robotStatus # "Active"
                /\ platformPc' = "stopCM"
                /\ UNCHANGED platformCall
             \/ /\ robotCall.op = "stop"
                /\ robotCall.res = "Ok"
                /\ platformPc' = "stopCM"
                /\ UNCHANGED platformCall
             \/ /\ robotCall.op = "stop"
                /\ robotCall.res \in {"panic", "Err"}
                /\ Returns("panic")
          /\ UNCHANGED platformStatus
       \/ /\ platformPc = "stopCM"
          /\ cmCall.op = "stop"
          /\ cmCall.res # "pending"
          /\ IF cmCall.res = "Ok" THEN platformPc' = "stopOM" /\ UNCHANGED platformCall
             ELSE Returns("Err")
          /\ UNCHANGED platformStatus
       \/ /\ platformPc = "stopOM"
          /\ omCall.op = "stop"
          /\ omCall.res # "pending"
          /\ IF omCall.res = "Ok" THEN platformPc' = "stopGateways" /\ UNCHANGED platformCall
             ELSE Returns("Err")
          /\ UNCHANGED platformStatus
       \/ /\ platformPc = "stopGateways"
          /\ \/ gwCall.op = "none" /\ gwStatus # "Active"
             \/ gwCall.op = "stop" /\ gwCall.res = "Ok"
          /\ platformStatus' = "Stopped"
          /\ IF ROBOT_TO_GATEWAY_TIMES /\ GATEWAY_TO_ROBOT_TIMES
             THEN Returns("Ok") ELSE Returns("panic")
       \/ /\ platformPc = "stopGateways"
          /\ gwCall.op = "stop"
          /\ gwCall.res = "Err"
          /\ Returns("Err")
          /\ UNCHANGED platformStatus
    /\ UNCHANGED <<omVars, cmVars, gwVars, robotVars, unitVars, timesVars, activeVars, configVars, passVars>>

\* ============================================================= set_config

\* number of set_config calls in one run
MaxConfigs == 2

\* the config files a call may name: two that validate and one that does not
ConfigMenu == {[name |-> "cfg1", valid |-> TRUE], [name |-> "cfg2", valid |-> TRUE],
               [name |-> "bad", valid |-> FALSE]}

NoConfigCall == [who |-> "none", from |-> "none", res |-> "none"]

\* Robot::new and Gateway::from_params: the parameters of the first config
ConfigInit ==
    /\ robot_params = "cfg0"
    /\ gateway_params = "cfg0"
    /\ robotSetConfigPc = [pc |-> "idle"]
    /\ configCall = NoConfigCall
    /\ nConfigs = 0

\* Robot::set_config up to the call of _set_config: status() reads the status
\* and gives the lock back; on Stopped the file is read and validated
RobotSetConfig ==
    /\ robotSetConfigPc.pc = "idle"
    /\ robotStopPc = "idle"
    /\ nConfigs < MaxConfigs
    /\ nConfigs' = nConfigs + 1
    /\ \E cfg \in ConfigMenu :
          IF ~statusPoisoned /\ robotStatus = "Stopped" /\ cfg.valid
          THEN /\ robotSetConfigPc' = [pc |-> "write", cfg |-> cfg.name]
               /\ configCall' = [who |-> "robot", from |-> robotStatus, res |-> "pending"]
          ELSE /\ robotSetConfigPc' = robotSetConfigPc
               /\ configCall' = [who |-> "robot",
                                 from |-> IF statusPoisoned THEN "poisoned" ELSE robotStatus,
                                 res |-> "Err"]
    /\ UNCHANGED <<robot_params, gateway_params>>
    /\ UNCHANGED <<omVars, cmVars, gwVars, robotVars, unitVars, platformVars, activeVars, passVars>>

\* Robot::_set_config: the parameters are written under the lock of
\* robot_params; the status is not looked at again
Robot_set_config ==
    /\ robotSetConfigPc.pc = "write"
    /\ robot_params' = robotSetConfigPc.cfg
    /\ robotSetConfigPc' = [pc |-> "idle"]
    /\ configCall' = [who |-> "robot", from |-> "Stopped", res |-> "Ok"]
    /\ UNCHANGED <<gateway_params, nConfigs>>
    /\ UNCHANGED <<omVars, cmVars, gwVars, robotVars, unitVars, platformVars, activeVars, passVars>>

\* Gateway::set_config: the read lock of the status is held from the check to
\* the end of _set_config, so no start() or stop() runs in between
GatewaySetConfig ==
    /\ gwStopPc = "idle"
    /\ nConfigs < MaxConfigs
    /\ nConfigs' = nConfigs + 1
    /\ \E cfg \in ConfigMenu :
          IF gwStatus = "Stopped" /\ cfg.valid
          THEN /\ gateway_params' = cfg.name
               /\ configCall' = [who |-> "gateway", from |-> gwStatus, res |-> "Ok"]
          ELSE /\ gateway_params' = gateway_params
               /\ configCall' = [who |-> "gateway", from |-> gwStatus, res |-> "Err"]
    /\ UNCHANGED <<robot_params, robotSetConfigPc>>
    /\ UNCHANGED <<omVars, cmVars, gwVars, robotVars, unitVars, platformVars, activeVars, passVars>>

\* ------------------------------------------------- Risk Control on its own

\* number of position snapshots one sequence of check_risk evaluations takes
MaxEvals == 2

\* a chain of n positions of one side: prices falling by one, rising by one,
\* all equal, or falling with one rise just before position k
ChainPrice(shape, n, k, i) ==
    CASE shape = "falling" -> (n + 1) - i
      [] shape = "rising" -> i
      [] shape = "flat" -> 5
      [] shape = "bump" -> IF i >= k THEN ((n + 1) - i) + 20 ELSE (n + 1) - i

Chain(side, shape, n, k) ==
    [i \in 1..n |-> Position(side, 1, ChainPrice(shape, n, k, i))]

\* two position lists merged alternately, the longer one's rest at the end
RECURSIVE Interleave(_, _)
Interleave(a, b) ==
    IF a = <<>> THEN b
    ELSE IF b = <<>> THEN a
    ELSE <<Head(a), Head(b)>> \o Interleave(Tail(a), Tail(b))

ChainLengths == {NUMBER_OF_BAD_DEALS - 1, NUMBER_OF_BAD_DEALS, NUMBER_OF_BAD_DEALS + 1}

OneSideChains ==
    {Chain(side, shape, n, 0) :
        side \in {"Sell", "Buy"}, shape \in {"falling", "rising", "flat"}, n \in ChainLengths}
    \cup {Chain(side, "bump", n, k) : side \in {"Sell", "Buy"}, n \in ChainLengths, k \in {2, 3}}
    \cup {Chain(side, "bump", n, n) : side \in {"Sell", "Buy"}, n \in ChainLengths}

\* position lists for the chain check: chains of one side around the threshold
\* and sales mixed with purchases
ChainMenu ==
    OneSideChains
    \cup {Interleave(Chain("Sell", a, n, 0), Chain("Buy", b, m, 0)) :
            a \in {"falling", "rising"}, b \in {"falling", "rising"},
            n \in {NUMBER_OF_BAD_DEALS - 1, NUMBER_OF_BAD_DEALS},
            m \in {NUMBER_OF_BAD_DEALS - 1, NUMBER_OF_BAD_DEALS}}

\* max-loss limits and position lists for check_max_loss, the extremes of i32
\* among them
LimitMenu == {0 - 3, 0, 10, I32Max}

PnlMenu ==
    {<<>>,
     <<Position("Buy", 1, 5)>>,
     <<Position("Buy", 1, 10)>>,
     <<Position("Buy", 1, 11)>>,
     <<Position("Sell", 1, 5)>>,
     <<Position("Sell", 2, 3), Position("Buy", 1, 11)>>,
     <<Position("Buy", 2, 4), Position("Sell", 3, 6), Position("Buy", 1, 20)>>,
     <<Position("Sell", 1, I32Max)>>,
     <<Position("Buy", 1, I32Max)>>}

\* the sequences of one to MaxEvals snapshots over the menu of the robot
RECURSIVE Snapshots(_)
Snapshots(n) ==
    IF n = 0 THEN {<<>>}
    ELSE Snapshots(n - 1)
         \cup {Append(q, positions) : q \in Snapshots(n - 1), positions \in PositionsMenu}

RiskInputs ==
    {[fn |-> "check_risk", snapshots |-> q] : q \in Snapshots(MaxEvals) \ {<<>>}}
    \cup {[fn |-> "check_max_loss", limit |-> l, positions |-> p] :
            l \in LimitMenu, p \in PnlMenu}
    \cup {[fn |-> "check_bad_deal_chain_sequence", positions |-> p] : p \in ChainMenu}

\* a RiskControl as constructed (max_pnl 0) and the arguments of one of its
\* functions
RiskInit ==
    /\ OMInit /\ CMInit /\ GWInit /\ RobotInit /\ PlatformInit /\ ActiveInit /\ ConfigInit
    /\ unitIn \in RiskInputs
    /\ unitOut = NotApplied

\* RiskControl::check_risk on the next snapshot: the high-water mark is updated
\* and the three rules are evaluated
CheckRiskEval ==
    /\ unitIn.fn = "check_risk"
    /\ unitIn.snapshots # <<>>
    /\ LET positions == Head(unitIn.snapshots)
       IN /\ max_pnl' = NewMaxPnl(positions, max_pnl)
          /\ \E overflow_checks \in BOOLEAN :
                unitOut' = [done |-> TRUE, fn |-> "check_risk",
                            pnl |-> calc_pnl(positions), before |-> max_pnl,
                            panicked |-> check_max_loss_panics(max_loss, calc_pnl(positions),
                                                               overflow_checks),
                            result |-> check_risk(positions, max_pnl)]
    /\ unitIn' = [unitIn EXCEPT !.snapshots = Tail(unitIn.snapshots)]
    /\ UNCHANGED <<robotStatus, statusPoisoned, robotStopPc, mainLoop, infoLoop,
                   context_info_receiver, batchesSent, finishCount, nContextMsgs, robotCall>>
    /\ UNCHANGED <<omVars, cmVars, gwVars, platformVars, activeVars, configVars, passVars>>

\* RiskControl::check_max_loss on the PnL of a position list
CheckMaxLossEval ==
    /\ unitIn.fn = "check_max_loss"
    /\ ~unitOut.done
    /\ \E overflow_checks \in BOOLEAN :
          unitOut' = [done |-> TRUE, fn |-> "check_max_loss",
                      pnl |-> calc_pnl(unitIn.positions),
                      panicked |-> check_max_loss_panics(unitIn.limit,
                                                         calc_pnl(unitIn.positions),
                                                         overflow_checks),
                      result |-> check_max_loss(unitIn.limit, calc_pnl(unitIn.positions))]
    /\ UNCHANGED <<unitIn, omVars, cmVars, gwVars, robotVars, platformVars, activeVars, configVars, passVars>>

\* RiskControl::check_bad_deal_chain_sequence on a position list
BadDealChainEval ==
    /\ unitIn.fn = "check_bad_deal_chain_sequence"
    /\ ~unitOut.done
    /\ unitOut' = [done |-> TRUE, fn |-> "check_bad_deal_chain_sequence",
                   bids |-> check_bids(SelectSide(unitIn.positions, "Sell")),
                   asks |-> check_asks(SelectSide(unitIn.positions, "Buy")),
                   result |-> check_bad_deal_chain_sequence(unitIn.positions)]
    /\ UNCHANGED <<unitIn, omVars, cmVars, gwVars, robotVars, platformVars, activeVars, configVars, passVars>>

RiskNext == CheckRiskEval \/ CheckMaxLossEval \/ BadDealChainEval

RiskSpec == RiskInit /\ [][RiskNext]_vars

\* ------------------------------------------------- check_order on its own

\* the limit orders a ledger entry may hold: two of R1 and one of R2 with the
\* same symbol, side and metainfo, and one of R1 on the other side
SentMenu ==
    {OrderContainer("R1", "Limit", GwBinance, 100, 1),
     OrderContainer("R1", "Limit", GwBinance, 101, 2),
     OrderContainer("R2", "Limit", GwBinance, 102, 3),
     [OrderContainer("R1", "Limit", GwBinance, 103, 4) EXCEPT !.order_side = "Sell"]}

MaxLedger == 3

\* the vectors save_sent_orders may have stored: limit orders of one dispatch
\* pass, each once, in any order
SentVectors ==
    {s \in UNION {[1..n -> SentMenu] : n \in 0..MaxLedger} :
        \A i, j \in 1..Len(s) : i # j => s[i] # s[j]}

\* the orders check_order is asked about
CheckMenu ==
    {OrderContainer("R1", "Limit", GwBinance, 110, 9),
     OrderContainer("R2", "Limit", GwBinance, 110, 9),
     OrderContainer("R1", "Limit", GwHuobiLower, 110, 9),
     OrderContainer("R1", "Market", GwBinance, 0, 0),
     convert_limit_to_cancel(OrderContainer("R1", "Limit", GwBinance, 100, 1))}

\* a gateway name no channel is configured for (the name of the unit test)
GwGateway1 == <<"G", "a", "t", "e", "w", "a", "y", "1">>

\* the batches send_orders_to_gateway is given
SendMenu ==
    GwBatchMenu
    \cup {<<>>,
          <<OrderContainer("R2", "Limit", GwBinance, 104, 5),
            OrderContainer("R1", "Market", GwBinance, 0, 0),
            OrderContainer("R1", "Limit", GwBinance, 105, 6)>>}

\* the active-orders stores handle_active_order may meet: per robot the active
\* orders of that robot, each once, in any order
ActiveStores ==
    {[x \in {} |-> <<>>]}
    \cup {Put(EmptyMap, "R1", l) :
            l \in {<<ActiveOrder("R1", 1, 100)>>,
                   <<ActiveOrder("R1", 1, 100), ActiveOrder("R1", 2, 101)>>,
                   <<ActiveOrder("R1", 2, 101), ActiveOrder("R1", 1, 100)>>}}
    \cup {Put(Put(EmptyMap, "R2", <<ActiveOrder("R2", 3, 102)>>), "R1", l) :
            l \in {<<ActiveOrder("R1", 1, 100)>>,
                   <<ActiveOrder("R1", 2, 101), ActiveOrder("R1", 1, 100)>>}}

\* the messages of the active-order channel: ActiveStateOrder and FilledOrder
ActiveOrderMsgMenu ==
    {[type |-> "ActiveStateOrder", active_order |-> a] : a \in ActiveOrderMenu}
    \cup {[type |-> "FilledOrder",
           filled_order |-> [custom_order_id |-> id, order_id |-> 7, symbol |-> "BTCUSDT",
                             amount |-> <<"1">>]] : id \in {1, 3}}

\* an Order Manager as constructed and the arguments of check_order (a ledger
\* with one entry and an order), of send_orders_to_gateway (a ledger with an
\* entry for Huobi and perhaps one for Binance, a gateway name, a batch and
\* whether the gateway's receiver is alive) or of handle_active_order (a store
\* and a message)
LedgerInit ==
    /\ OMInit /\ CMInit /\ GWInit /\ RobotInit /\ PlatformInit /\ ActiveInit /\ ConfigInit
    /\ unitIn \in {[fn |-> "check_order", ledger |-> Put(EmptyMap, GwBinance, s), oc |-> oc] :
                      s \in SentVectors, oc \in CheckMenu}
                  \cup {[fn |-> "send_orders_to_gateway", ledger |-> l, gateway |-> g,
                         orders |-> b, receiver_alive |-> a] :
                         l \in {Put(EmptyMap, GwHuobi,
                                    <<OrderContainer("R2", "Limit", GwHuobiLower, 99, 7)>>)}
                               \cup {Put(Put(EmptyMap, GwHuobi,
                                            <<OrderContainer("R2", "Limit", GwHuobiLower, 99, 7)>>),
                                        GwBinance, s) : s \in SentVectors},
                         g \in {GwBinance, GwHuobi, GwGateway1},
                         b \in SendMenu, a \in BOOLEAN}
                  \cup {[fn |-> "handle_active_order", active_orders |-> st, msg |-> m] :
                         st \in ActiveStores, m \in ActiveOrderMsgMenu}
    /\ unitOut = NotApplied

\* OrderManager::check_order on the ledger and the order
CheckOrderEval ==
    /\ unitIn.fn = "check_order"
    /\ ~unitOut.done
    /\ LET r == check_order(unitIn.ledger, unitIn.oc)
       IN unitOut' = [done |-> TRUE, fn |-> "check_order", ledger |-> r.ledger,
                      cancels |-> r.cancels, panic |-> r.panic]
    /\ UNCHANGED <<unitIn, omVars, cmVars, gwVars, robotVars, platformVars, activeVars, configVars, passVars>>

\* OrderManager::send_orders_to_gateway on empty channels and the ledger
SendOrdersEval ==
    /\ unitIn.fn = "send_orders_to_gateway"
    /\ ~unitOut.done
    /\ LET r == send_orders_to_gateway([log |-> [g \in GatewayNames |-> <<>>],
                                        ledger |-> unitIn.ledger],
                                       unitIn.gateway, unitIn.orders, unitIn.receiver_alive)
       IN unitOut' = [done |-> TRUE, fn |-> "send_orders_to_gateway",
                      log |-> r.log, ledger |-> r.ledger]
    /\ UNCHANGED <<unitIn, omVars, cmVars, gwVars, robotVars, platformVars, activeVars, configVars, passVars>>

\* OrderManager::handle_active_order on the store and the message
HandleActiveOrderEval ==
    /\ unitIn.fn = "handle_active_order"
    /\ ~unitOut.done
    /\ unitOut' = [done |-> TRUE, fn |-> "handle_active_order",
                   active_orders |-> om_handle_active_order(unitIn.active_orders, unitIn.msg)]
    /\ UNCHANGED <<unitIn, omVars, cmVars, gwVars, robotVars, platformVars, activeVars, configVars, passVars>>

LedgerNext == CheckOrderEval \/ SendOrdersEval \/ HandleActiveOrderEval

LedgerSpec == LedgerInit /\ [][LedgerNext]_vars

\* ------------------------------------------------------------ specifications

Init ==
    /\ OMInit /\ CMInit /\ GWInit /\ RobotInit /\ UnitInit /\ PlatformInit /\ ActiveInit
    /\ ConfigInit

\* the Order Manager between the robots and the gateways
OMNext ==
    \/ Submit
    \/ AskIter
    \/ SendIter
    \/ SendPoll
    \/ OMStart
    \/ OMStop
    \/ OMStopFinish

Next == OMNext

Spec == Init /\ [][Next]_vars

\* the start/stop protocol of the Order Manager, the Context Manager and a
\* Gateway, with their loops running and no traffic
LifeNext ==
    \/ AskIter
    \/ SendIter
    \/ SendPoll
    \/ OMStart
    \/ OMStartErr
    \/ OMStop
    \/ OMStopErr
    \/ OMStopFinish
    \/ CMPublishIter
    \/ CMUpdateIter
    \/ CMStart
    \/ CMStartErr
    \/ CMStop
    \/ CMStopErr
    \/ CMStopFinish
    \/ GWReceiveIter
    \/ GWSendIter
    \/ GWStart
    \/ GWStartErr
    \/ GWStop
    \/ GWStopErr
    \/ GWStopFinish

LifeSpec == Init /\ [][LifeNext]_vars

\* the Context Manager with the gateways' messages
CMNext ==
    \/ GatewaySends
    \/ CMPublishIter
    \/ CMUpdateIter
    \/ CMStart
    \/ CMStop
    \/ CMStopFinish

CMSpec == Init /\ [][CMNext]_vars

\* the Context Manager that is started and never stopped: its two threads are
\* scheduled again and again
CMLiveNext ==
    \/ GatewaySends
    \/ CMPublishIter
    \/ CMUpdateIter
    \/ CMStart

CMLiveSpec ==
    Init /\ [][CMLiveNext]_vars /\ WF_vars(CMUpdateIter) /\ WF_vars(CMPublishIter)

\* a Gateway with the Order Manager's batches
GWNext ==
    \/ OrdersArrive
    \/ GWReceiveIter
    \/ GWSendIter
    \/ GWStart
    \/ GWStop
    \/ GWStopFinish

GWSpec == Init /\ [][GWNext]_vars

\* a Robot and a Gateway with set_config calls between their starts and stops
ConfigNext ==
    \/ RobotSetConfig
    \/ Robot_set_config
    \/ GatewaySetConfig
    \/ RobotStart
    \/ RobotStartErr
    \/ RobotLock
    \/ GWStart
    \/ GWStop
    \/ GWReceiveIter
    \/ GWSendIter
    \/ GWStopFinish

ConfigSpec == Init /\ [][ConfigNext]_vars

\* the Gateway with its receiving and its sending thread scheduled again and
\* again
GWLiveSpec ==
    Init /\ [][GWNext]_vars /\ WF_vars(GWReceiveIter) /\ WF_vars(GWSendIter)

\* a Robot with the Context Manager's messages
RobotNext ==
    \/ ContextArrives
    \/ RobotStart
    \/ RobotStartErr
    \/ RobotStop
    \/ RobotStopErr
    \/ RobotStopTrySend
    \/ RobotLock
    \/ RobotLockErr
    \/ RobotMainIter
    \/ RobotInfoIter
    \/ RobotInfoLocks

RobotSpec == Init /\ [][RobotNext]_vars

\* the Context Manager in the running platform, fed by a Gateway
FlowNext ==
    \/ GatewayFeeds
    \/ CMUpdateIter
    \/ CMPublishIter
    \/ CMStart
    \/ CMStop
    \/ CMStopFinish

FlowSpec == Init /\ [][FlowNext]_vars

\* the Platform starting and stopping its components while a batch of orders
\* reaches the gateway and a ContextInfo the robot; a robot may be locked
PlatformNext ==
    \/ PlatformStart
    \/ PlatformStartErr
    \/ PlatformStartsRobot
    \/ PlatformStartsGateway
    \/ PlatformStartsCM
    \/ PlatformStartsOM
    \/ PlatformStartGoesOn
    \/ PlatformStop
    \/ PlatformStopErr
    \/ PlatformStopsRobot
    \/ PlatformStopsCM
    \/ PlatformStopsOM
    \/ PlatformStopsGateway
    \/ PlatformStopGoesOn
    \/ PlatformOrders
    \/ PlatformContext
    \/ RobotLock
    \/ RobotMainIter
    \/ RobotInfoIter
    \/ RobotStopTrySend
    \/ AskIter
    \/ SendIter
    \/ SendPoll
    \/ OMStopFinish
    \/ CMPublishIter
    \/ CMUpdateIter
    \/ CMStopFinish
    \/ GWReceiveIter
    \/ GWSendIter
    \/ GWStopFinish

PlatformSpec == Init /\ [][PlatformNext]_vars

\* the Order Manager with its threads, started and stopped, while the gateways
\* send ActiveStateOrder messages.  OrderManager::start spawns the intake and
\* the dispatch thread; the thread that would call receive_active_orders_msg is
\* commented out, so no step of the Order Manager reads the channel
ActiveNext ==
    \/ ActiveOrderArrives
    \/ AskIter
    \/ SendIter
    \/ SendPoll
    \/ OMStart
    \/ OMStartErr
    \/ OMStop
    \/ OMStopErr
    \/ OMStopFinish

\* the threads of the Order Manager keep running
ActiveSpec ==
    Init /\ [][ActiveNext]_vars /\ WF_vars(AskIter) /\ WF_vars(SendIter \/ SendPoll)

\* ------------------------------------------------- the robot's order batches

\* the lists of actions Strategy::calc may return in one cycle: none, one limit
\* order, one market order, a limit order on each of two exchanges
StrategyActions ==
    {<<>>,
     <<[kind |-> "Limit", exchange |-> GwBinance]>>,
     <<[kind |-> "Market", exchange |-> GwBinance]>>,
     <<[kind |-> "Limit", exchange |-> GwBinance], [kind |-> "Limit", exchange |-> GwHuobi]>>}

\* Robot::get_robot_name: the name in robot_params
get_robot_name == robot_params

\* a calc that names the robot in the first container only
calc_FirstOnly(robot_name, actions, n) ==
    [i \in 1..Len(actions) |->
        IF actions[i].kind = "Limit"
        THEN OrderContainer(IF i = 1 THEN robot_name ELSE "", "Limit", actions[i].exchange,
                            100 + n, 10 * n + i)
        ELSE OrderContainer(IF i = 1 THEN robot_name ELSE "", "Market", actions[i].exchange,
                            0, 0)]

\* Robot::calc: one OrderContainer for each action of the strategy, every one
\* with the robot's name as robot_id; the custom order id of a limit order is a
\* hash of the time (here: of the cycle n and the place in the batch)
calc(robot_name, actions, n) ==
    [i \in 1..Len(actions) |->
        IF actions[i].kind = "Limit"
        THEN OrderContainer(robot_name, "Limit", actions[i].exchange, 100 + n, 10 * n + i)
        ELSE OrderContainer(robot_name, "Market", actions[i].exchange, 0, 0)]

\* Robot::main_cycle on the channel to the Order Manager: send_order is called
\* only when calc returned at least one order
main_cycle(chan, orders) == IF Len(orders) > 0 THEN Append(chan, orders) ELSE chan

\* one iteration of the main-cycle thread with the batch it sends: main_cycle()
\* puts the orders that calc made of the strategy's actions on the Order
\* Manager's channel, then the poll of stop_channel
RobotMainCycle ==
    /\ mainLoop = "running"
    /\ batchesSent < MaxBatches
    /\ \E actions \in StrategyActions :
          inbox' = main_cycle(inbox, calc(get_robot_name, actions, batchesSent))
    /\ batchesSent' = IF inbox' # inbox THEN batchesSent + 1 ELSE batchesSent
    /\ IF robotStopPc = "send"
       THEN mainLoop' = "exited" /\ robotStopPc' = "trySend"
       ELSE UNCHANGED <<mainLoop, robotStopPc>>
    /\ UNCHANGED <<robotStatus, statusPoisoned, infoLoop, context_info_receiver,
                   max_pnl, finishCount, nContextMsgs, robotCall>>
    /\ UNCHANGED <<omState, omStopPc, askLoop, sendLoop, locksPoisoned, wanted_orders,
                   sent_orders, gwLog, nSubmitted, omCall, omStops>>
    /\ UNCHANGED <<cmVars, gwVars, unitVars, platformVars, activeVars, configVars, passVars>>

\* a Robot whose main cycle sends its batches to the Order Manager's intake
\* loop; the robot's name is set by set_config
CycleNext ==
    \/ RobotSetConfig
    \/ Robot_set_config
    \/ RobotStart
    \/ RobotMainCycle
    \/ OMStart
    \/ AskIter

CycleSpec == Init /\ [][CycleNext]_vars

\* ------------------------------------------------------------------ claims

\* the dedup key of find_sent_orders
SameKey(a, b) ==
    /\ a.robot_id = b.robot_id
    /\ a.gateway = b.gateway
    /\ a.symbol = b.symbol
    /\ a.order_side = b.order_side
    /\ a.metainfo = b.metainfo

\* c is the CancelOrder that corresponds to the limit order o
IsCancelOf(c, o) ==
    /\ c.kind = "Cancel"
    /\ c.robot_id = o.robot_id
    /\ c.metainfo = o.metainfo
    /\ c.gateway = o.gateway
    /\ c.symbol = o.symbol
    /\ c.price = o.price
    /\ c.amount = o.amount
    /\ c.order_side = o.order_side
    /\ c.custom_order_id = o.custom_order_id

\* the places of gateway g's messages: <<message index, position in it>>
Places(g) == {<<i, a>> : i \in 1..Len(gwLog[g]), a \in 1..MaxOrders + 1} \cap
             UNION {{<<i, a>> : a \in 1..Len(gwLog[g][i])} : i \in 1..Len(gwLog[g])}

At(g, p) == gwLog[g][p[1]][p[2]]

\* a Cancel of o was sent to g in a message before message j
CancelledBefore(g, o, j) ==
    \E p \in Places(g) : p[1] < j /\ IsCancelOf(At(g, p), o)

\* the orders of a message that are not Cancels: the orders the pass dispatched
Dispatched(msg) == {a \in 1..Len(msg) : msg[a].kind # "Cancel"}

\* C1 (as claimed): when limit order A was dispatched in one pass and limit
\* order B of the same robot, gateway, symbol, side and strategy tag with another
\* price is dispatched in a later pass (B the only order of that pass, A the
\* last order with that key before B and not cancelled so far), the later pass
\* sends exactly [Cancel(A), B] and the ledger entry then holds only B.
C1_DedupInLaterPass ==
    \A g \in GatewayNames : \A pa, pb \in Places(g) :
        LET A == At(g, pa)
            B == At(g, pb)
        IN ( /\ pa[1] < pb[1]
             /\ A.kind = "Limit" /\ B.kind = "Limit"
             /\ SameKey(A, B) /\ A.price # B.price
             /\ Cardinality(Dispatched(gwLog[g][pb[1]])) = 1
             /\ ~ CancelledBefore(g, A, pb[1])
             /\ \A pc \in Places(g) :
                   (At(g, pc).kind = "Limit" /\ SameKey(At(g, pc), B) /\ pc # pa /\ pc # pb)
                      => (pc[1] < pa[1] \/ (pc[1] = pa[1] /\ pc[2] < pa[2])) )
           => /\ Len(gwLog[g][pb[1]]) = 2
              /\ IsCancelOf(gwLog[g][pb[1]][1], A)
              /\ gwLog[g][pb[1]][2] = B
              /\ (pb[1] = Len(gwLog[g]) => sent_orders[g] = <<B>>)

\* the two orders of Scenario A
ScenarioA100 == OrderContainer("R1", "Limit", GwBinance, 100, 1)

ScenarioA101 == OrderContainer("R1", "Limit", GwBinance, 101, 2)

Occurs(g, o) == \E p \in Places(g) : At(g, p) = o

\* C2 (as claimed): once a Started Order Manager has received and dispatched
\* the two batches of Scenario A, whatever the interleaving of the intake and
\* the dispatch loop, the Binance channel has received exactly two messages,
\* [A] and then [Cancel(A), B].
C2_ScenarioAAnyInterleaving ==
    ( /\ omStops = 0
      /\ nSubmitted = 2
      /\ inbox = <<>>
      /\ DOMAIN wanted_orders = {}
      /\ Occurs(GwBinance, ScenarioA100)
      /\ Occurs(GwBinance, ScenarioA101) )
    => /\ Len(gwLog[GwBinance]) = 2
       /\ gwLog[GwBinance][1] = <<ScenarioA100>>
       /\ Len(gwLog[GwBinance][2]) = 2
       /\ IsCancelOf(gwLog[GwBinance][2][1], ScenarioA100)
       /\ gwLog[GwBinance][2][2] = ScenarioA101

\* the order a Cancel at place p was synthesized for: the next order of the
\* message that is not a Cancel
SynthesizedFor(g, p) ==
    LET later == {b \in Dispatched(gwLog[g][p[1]]) : b > p[2]}
    IN IF later = {} THEN 0 ELSE CHOOSE b \in later : \A c \in later : b <= c

\* C3 (as claimed): no limit order of one robot is converted into a Cancel
\* while the Order Manager processes an order of another robot: every Cancel
\* synthesized for an order carries that order's robot id.
C3_CrossRobotIsolation ==
    \A g \in GatewayNames : \A p \in Places(g) :
        (At(g, p).kind = "Cancel" /\ SynthesizedFor(g, p) # 0)
           => At(g, p).robot_id = gwLog[g][p[1]][SynthesizedFor(g, p)].robot_id

\* C4: when stop() returns Ok, every limit order the ledger held when stop()
\* came to drain it (both loops halted) has a corresponding CancelOrder on the
\* channel of its gateway, and the ledger holds no orders.
C4_ShutdownDrains ==
    [][ (omStopPc = "finish" /\ omStopPc' = "idle")
          => /\ \A g \in DOMAIN sent_orders : \A i \in 1..Len(sent_orders[g]) :
                   sent_orders[g][i].kind = "Limit"
                      => \E m \in 1..Len(gwLog'[extract_gateway_name(sent_orders[g][i].gateway)]) :
                           \E a \in 1..Len(gwLog'[extract_gateway_name(sent_orders[g][i].gateway)][m]) :
                              IsCancelOf(gwLog'[extract_gateway_name(sent_orders[g][i].gateway)][m][a],
                                         sent_orders[g][i])
             /\ \A g \in DOMAIN sent_orders' : sent_orders'[g] = <<>>
             /\ omState' = "Stopped"
             /\ omCall'.res = "Ok" ]_vars

\* stop() has returned Ok after sending a batch of Cancels for the ledger's orders
C4_Witness ==
    /\ omCall = [op |-> "stop", res |-> "Ok"]
    /\ \E g \in GatewayNames :
          /\ gwLog[g] # <<>>
          /\ Len(gwLog[g][Len(gwLog[g])]) = 2
          /\ \A a \in 1..2 : gwLog[g][Len(gwLog[g])][a].kind = "Cancel"
          /\ sent_orders[g] = <<>>

\* C5 (as claimed): every limit order forwarded to a gateway is in that
\* gateway's ledger entry unless the Order Manager removed it for a superseding
\* order or shutdown drained it; in both cases its Cancel went to the gateway.
C5_LedgerInvariant ==
    \A g \in GatewayNames : \A p \in Places(g) :
        At(g, p).kind = "Limit"
           => \/ /\ g \in DOMAIN sent_orders
                 /\ \E i \in 1..Len(sent_orders[g]) : sent_orders[g][i] = At(g, p)
              \/ \E q \in Places(g) : IsCancelOf(At(g, q), At(g, p))

\* C6: for the Order Manager, the Context Manager and the Gateway, a start()
\* call made while Started/Active and a stop() call made while Stopped (also
\* when never started) return an error and leave the state, the two loops and
\* the stop signalling as they were.
C6_LifecycleErrors ==
    [][ /\ (omCall' # omCall /\ omCall'.op = "start" /\ omState = "Started")
              => (omCall'.res = "Err" /\ UNCHANGED <<omState, askLoop, sendLoop, omStopPc>>)
        /\ (omCall' # omCall /\ omCall'.op = "stop" /\ omState = "Stopped")
              => (omCall'.res = "Err" /\ UNCHANGED <<omState, askLoop, sendLoop, omStopPc>>)
        /\ (cmCall' # cmCall /\ cmCall'.op = "start" /\ cmState = "Started")
              => (cmCall'.res = "Err" /\ UNCHANGED <<cmState, publishLoop, updateLoop, cmStopPc>>)
        /\ (cmCall' # cmCall /\ cmCall'.op = "stop" /\ cmState = "Stopped")
              => (cmCall'.res = "Err" /\ UNCHANGED <<cmState, publishLoop, updateLoop, cmStopPc>>)
        /\ (gwCall' # gwCall /\ gwCall'.op = "start" /\ gwStatus = "Active")
              => (gwCall'.res = "Err"
                  /\ UNCHANGED <<gwStatus, receiveLoop, orderLoop, feedThreads, gwStopPc>>)
        /\ (gwCall' # gwCall /\ gwCall'.op = "stop" /\ gwStatus = "Stopped")
              => (gwCall'.res = "Err"
                  /\ UNCHANGED <<gwStatus, receiveLoop, orderLoop, feedThreads, gwStopPc>>)
      ]_vars

\* a second start() of the running Order Manager and of the running Gateway and
\* a stop() of the stopped Context Manager were all refused
C6_Witness ==
    /\ omCall = [op |-> "start", res |-> "Err"]
    /\ omState = "Started" /\ askLoop = "running" /\ sendLoop = "running"
    /\ cmCall = [op |-> "stop", res |-> "Err"]
    /\ cmState = "Stopped" /\ publishLoop = "none" /\ updateLoop = "none"
    /\ gwCall = [op |-> "start", res |-> "Err"]
    /\ gwStatus = "Active" /\ receiveLoop = "running" /\ orderLoop = "running"

\* C7 (as claimed): a stop() call on a Started Order Manager eventually
\* returns Ok: while it waits to hand a stop signal to a loop, that loop is
\* running and will poll its stop channel.
C7_StopCanReturn ==
    /\ (omStopPc = "askStop" => askLoop = "running")
    /\ (omStopPc = "sendStop" => sendLoop = "running")

\* C8: the status of a Robot changes only from Stopped to Active, from Active
\* to Stopped and from Active to Locked; start() on an Active or Locked robot,
\* stop() on a Stopped or Locked robot and lock() on a Stopped or Locked robot
\* return an error and leave the status as it was; Locked never changes.
C8_RobotStateMachine ==
    [][ /\ robotStatus' # robotStatus
              => <<robotStatus, robotStatus'>> \in
                    {<<"Stopped", "Active">>, <<"Active", "Stopped">>, <<"Active", "Locked">>}
        /\ (robotCall' # robotCall /\ robotCall'.op = "start"
            /\ robotStatus \in {"Active", "Locked"})
              => (robotCall'.res = "Err" /\ robotStatus' = robotStatus)
        /\ (robotCall' # robotCall /\ robotCall'.op = "stop"
            /\ robotStatus \in {"Stopped", "Locked"})
              => (robotCall'.res = "Err" /\ robotStatus' = robotStatus)
        /\ (robotCall' # robotCall /\ robotCall'.op = "lock"
            /\ robotStatus \in {"Stopped", "Locked"})
              => (robotCall'.res = "Err" /\ robotStatus' = robotStatus)
        /\ robotStatus = "Locked" => robotStatus' = "Locked"
      ]_vars

\* Risk Control has locked the robot and a start() after that was refused
C8_Witness ==
    /\ robotStatus = "Locked"
    /\ infoLoop = "exited"
    /\ robotCall.op = "start"
    /\ robotCall.res = "Err"

\* C9 (as claimed): when Risk Control has locked the robot and the info loop has
\* exited, the main cycle has been signalled to stop: it has exited, or a stop
\* signal for it is pending.
C9_RiskLockStopsMainCycle ==
    (robotStatus = "Locked" /\ infoLoop = "exited")
       => (mainLoop # "running" \/ robotStopPc # "idle")

\* C10 (as claimed): a stop() call on an Active robot whose two loops are both
\* running returns Ok, the status is Stopped, both loops have exited and the
\* strategy's finish() was called exactly once.
C10_RobotStop ==
    (robotCall.op = "stop" /\ robotCall.both /\ robotCall.res # "pending")
       => /\ robotCall.res = "Ok"
          /\ robotStatus = "Stopped"
          /\ mainLoop = "exited"
          /\ infoLoop = "exited"
          /\ finishCount = 1

\* C11: over every sequence of check_risk evaluations the stored maximum PnL
\* never decreases from one evaluation to the next, and after an evaluation it
\* is at least the PnL of that evaluation.
C11_HighWaterMark ==
    [][/\ max_pnl' >= max_pnl
       /\ (unitOut'.done /\ unitOut'.fn = "check_risk" /\ unitOut' # unitOut)
             => max_pnl' >= unitOut'.pnl]_vars

\* a second evaluation with a PnL below the maximum the first one stored
C11_Witness ==
    /\ unitOut.done
    /\ unitOut.fn = "check_risk"
    /\ unitOut.before > 0
    /\ unitOut.pnl < unitOut.before
    /\ max_pnl = unitOut.before

\* the places of the positions of one side, and the last n of them
SideIdx(positions, side) == {i \in 1..Len(positions) : positions[i].order_side = side}

LastIdx(idx, n) == {i \in idx : Cardinality({j \in idx : j >= i}) <= n}

\* C12: the chain check fires for the sales exactly when there are at least 16
\* sales and the prices of the last 16 never rise, for the purchases exactly
\* when there are at least 16 purchases and the prices of the last 16 never
\* fall, and check_bad_deal_chain_sequence returns true exactly when one of the
\* two fires; a side with fewer than 16 positions does not fire.
C12_BadDealChainThreshold ==
    (unitOut.done /\ unitOut.fn = "check_bad_deal_chain_sequence") =>
        LET p == unitIn.positions
            sells == SideIdx(p, "Sell")
            buys == SideIdx(p, "Buy")
            sellFires ==
                /\ Cardinality(sells) >= NUMBER_OF_BAD_DEALS
                /\ \A i, j \in LastIdx(sells, NUMBER_OF_BAD_DEALS) :
                       i < j => p[j].price <= p[i].price
            buyFires ==
                /\ Cardinality(buys) >= NUMBER_OF_BAD_DEALS
                /\ \A i, j \in LastIdx(buys, NUMBER_OF_BAD_DEALS) :
                       i < j => p[j].price >= p[i].price
        IN /\ unitOut.bids <=> sellFires
           /\ unitOut.asks <=> buyFires
           /\ unitOut.result <=> (sellFires \/ buyFires)

\* exactly sixteen sales, none of them above the one before: the check fires
C12_Witness ==
    /\ unitOut.done
    /\ unitOut.fn = "check_bad_deal_chain_sequence"
    /\ Cardinality(SideIdx(unitIn.positions, "Sell")) = NUMBER_OF_BAD_DEALS
    /\ Cardinality(SideIdx(unitIn.positions, "Buy")) = NUMBER_OF_BAD_DEALS - 1
    /\ unitOut.bids
    /\ ~unitOut.asks

\* C13 (as claimed): for every limit and every PnL, check_max_loss returns and
\* its result is true exactly when limit + pnl <= 0, the PnL being the sales
\* minus the purchases of the position list.
C13_MaxLossRule ==
    (unitOut.done /\ unitOut.fn = "check_max_loss") =>
        /\ ~unitOut.panicked
        /\ unitOut.result <=> (unitOut.pnl <= 0 - unitIn.limit)

\* C14: when the update loop processes a FilledOrder whose custom order id has
\* no recorded ActiveOrder, the update returns Ok (the loop goes on, unless it
\* takes a pending stop signal) and the filled-history store, the active-orders
\* table, the depth table and the positions file are unchanged.
C14_FillWithoutActiveOrder ==
    [][(/\ updateLoop = "running"
        /\ info_receiver # <<>>
        /\ info_receiver' = Tail(info_receiver)
        /\ Head(info_receiver).type = "FilledOrder"
        /\ Head(info_receiver).filled_order.custom_order_id \notin DOMAIN active_orders_info)
       => (/\ filled_orders_info_store' = filled_orders_info_store
           /\ active_orders_info' = active_orders_info
           /\ depth_info' = depth_info
           /\ positions_file' = positions_file
           /\ updateLoop' = IF cmStopPc = "updateStop" THEN "none" ELSE "running")]_vars

\* an ActiveOrder and then a fill of another order were processed: the fill left
\* no trace
C14_Witness ==
    /\ nGatewayMsgs = MaxGwMsgs
    /\ info_receiver = <<>>
    /\ DOMAIN active_orders_info = {1}
    /\ depth_info = EmptyMap
    /\ filled_orders_info_store = EmptyMap
    /\ positions_file = EmptyMap
    /\ updateLoop = "running"

\* C15: when the exchange rejects a Cancel the gateway submits, cancel_order
\* returns Ok and the dispatch loop goes on: the next order of the queue, if
\* there is one, is taken from the queue in the same drain, and the sending
\* thread ends in a panic only where the queue held a limit order.
C15_RejectedCancelIsSuccess ==
    [][/\ \A j \in 1..(Len(exchangeLog') - Len(exchangeLog)) :
             (/\ exchangeLog'[Len(exchangeLog) + j].kind = "Cancel"
              /\ exchangeLog'[Len(exchangeLog) + j].outcome = "rejected"
              /\ j < Len(order_containers))
             => Len(order_containers') <= Len(order_containers) - (j + 1)
       /\ (orderLoop = "running" /\ orderLoop' = "panicked")
             => \E i \in 1..Len(order_containers) : order_containers[i].kind = "Limit"]_vars

\* a rejected Cancel in the exchange log, followed by the next request
C15_Witness ==
    \E i \in 1..Len(exchangeLog) :
        /\ exchangeLog[i].kind = "Cancel"
        /\ exchangeLog[i].outcome = "rejected"
        /\ i < Len(exchangeLog)
        /\ orderLoop = "running"

\* C16 (as claimed): in the running platform, when the Context Manager
\* processes the fill of robot R1's limit order (custom order id 1), the
\* ActiveOrder of that order is on record and the fill becomes a Position of
\* R1, which the next ContextInfo published to R1 carries.
C16_FillReachesRobot ==
    [][(/\ updateLoop = "running"
        /\ info_receiver # <<>>
        /\ info_receiver' = Tail(info_receiver)
        /\ Head(info_receiver).type = "FilledOrder"
        /\ Head(info_receiver).filled_order.custom_order_id = 1)
       => (/\ 1 \in DOMAIN active_orders_info
           /\ PositionsOf(filled_orders_info_store', "R1") # <<>>)]_vars

\* C17 (as claimed): Platform.start() while Active and Platform.stop() while
\* Stopped return an error and leave the status unchanged; start() from
\* Stopped sets the status to Active; a stop() from Active that has ended has
\* returned Ok with the status Stopped, no robot Active, the Context Manager
\* and the Order Manager Stopped and no gateway Active.
C17_PlatformLifecycle ==
    /\ (platformCall.op = "start" /\ platformCall.from = "Active")
          => (platformCall.res = "Err" /\ platformStatus = "Active")
    /\ (platformCall.op = "stop" /\ platformCall.from = "Stopped")
          => (platformCall.res = "Err" /\ platformStatus = "Stopped")
    /\ (platformCall.op = "start" /\ platformCall.from = "Stopped")
          => platformStatus = "Active"
    /\ (platformCall.op = "stop" /\ platformCall.from = "Active"
           /\ platformCall.res # "pending")
          => (/\ platformCall.res = "Ok"
              /\ platformStatus = "Stopped"
              /\ robotStatus # "Active"
              /\ cmState = "Stopped"
              /\ omState = "Stopped"
              /\ gwStatus # "Active")

\* the entries of a vector with the key of the order (stale TRUE) or without it
\* (stale FALSE), in their order
RECURSIVE Entries(_, _, _)
Entries(list, oc, stale) ==
    IF list = <<>> THEN <<>>
    ELSE IF SameKey(Head(list), oc) = stale
         THEN <<Head(list)>> \o Entries(Tail(list), oc, stale)
         ELSE Entries(Tail(list), oc, stale)

\* C18 (as claimed): check_order on a LimitOrder whose gateway has a ledger
\* entry removes all and only the entries with the order's robot id, gateway,
\* symbol, side and strategy metadata, returns one Cancel per removed entry
\* with that entry's fields, and leaves the other entries in their order.
C18_CheckOrderRemovesStale ==
    (unitOut.done /\ unitOut.fn = "check_order" /\ unitIn.oc.kind = "Limit"
       /\ unitIn.oc.gateway \in DOMAIN unitIn.ledger)
    => LET before == unitIn.ledger[unitIn.oc.gateway]
           stale == Entries(before, unitIn.oc, TRUE)
       IN /\ ~unitOut.panic
          /\ unitOut.ledger[unitIn.oc.gateway] = Entries(before, unitIn.oc, FALSE)
          /\ unitOut.cancels = [i \in 1..Len(stale) |-> convert_limit_to_cancel(stale[i])]

\* C19: check_order on a MarketOrder or a CancelOrder returns no Cancel and
\* leaves the ledger as it was, whatever the ledger holds.
C19_NoDedupForMarketAndCancel ==
    (unitOut.done /\ unitOut.fn = "check_order" /\ unitIn.oc.kind \in {"Market", "Cancel"})
    => (/\ unitOut.cancels = <<>>
        /\ unitOut.ledger = unitIn.ledger
        /\ ~unitOut.panic)

\* check_order has been applied to a MarketOrder with a ledger that holds two
\* limit orders with the robot, gateway, symbol, side and metainfo of the order
C19_Witness ==
    /\ unitOut.done
    /\ unitOut.fn = "check_order"
    /\ unitIn.oc.kind = "Market"
    /\ unitIn.oc.gateway \in DOMAIN unitIn.ledger
    /\ Len(Entries(unitIn.ledger[unitIn.oc.gateway], unitIn.oc, TRUE)) = 2

\* the orders of a robot in a sequence that are no Cancels and name the gateway
\* g once their gateway field is normalized, in their order
RECURSIVE OrdersFor(_, _, _)
OrdersFor(orders, r, g) ==
    IF orders = <<>> THEN <<>>
    ELSE IF /\ Head(orders).robot_id = r
            /\ Head(orders).kind # "Cancel"
            /\ extract_gateway_name(Head(orders).gateway) = g
         THEN <<Head(orders)>> \o OrdersFor(Tail(orders), r, g)
         ELSE OrdersFor(Tail(orders), r, g)

\* a dispatch pass over a non-empty pending map: it ends with the map cleared
\* or with the dispatch thread panicked
DispatchPass ==
    /\ DOMAIN wanted_orders # {}
    /\ \/ wanted_orders' = EmptyMap
       \/ sendLoop = "running" /\ sendLoop' = "panicked"

\* the message a step has put on the channel of gateway g, <<>> if none
SentTo(g) ==
    IF Len(gwLog'[g]) > Len(gwLog[g]) THEN gwLog'[g][Len(gwLog'[g])] ELSE <<>>

\* what C20 says of the step of a dispatch pass
PassComposition ==
    \A g \in GatewayNames :
       /\ Len(gwLog'[g]) <= Len(gwLog[g]) + 1
       /\ \A i \in 1..Len(SentTo(g)) :
             /\ extract_gateway_name(SentTo(g)[i].gateway) = g
             /\ SentTo(g)[i].kind = "Cancel"
                   => /\ i < Len(SentTo(g))
                      /\ SentTo(g)[i + 1].kind \in {"Cancel", "Limit"}
       /\ \A r \in DOMAIN wanted_orders :
             OrdersFor(SentTo(g), r, g) = OrdersFor(wanted_orders[r], r, g)

\* C20 (as claimed): a dispatch pass sends at most one message per gateway; in
\* it every Cancel stands immediately before the order it was synthesized for
\* (so before a limit order, or a further Cancel for it), every order of the
\* pass is in the message of the gateway its normalized gateway field names and
\* only there, and the orders of one robot are in the order they were received.
C20_BatchComposition == [][DispatchPass => PassComposition]_vars

\* the same for the passes in which check_order does not panic
C20_CompletedPasses ==
    [][(DispatchPass /\ sendLoop' # "panicked") => PassComposition]_vars

\* the limit orders of a batch, in batch order
RECURSIVE LimitsOf(_)
LimitsOf(orders) ==
    IF orders = <<>> THEN <<>>
    ELSE IF Head(orders).kind = "Limit"
         THEN <<Head(orders)>> \o LimitsOf(Tail(orders))
         ELSE LimitsOf(Tail(orders))

\* C21: when send_orders_to_gateway sends a batch on the channel of gateway g,
\* the channel holds exactly that batch and the ledger entry of g is exactly the
\* limit orders of the batch in batch order, whatever it was; the entries of
\* the other gateways are unchanged; with no channel for the name, or a send
\* that fails, nothing is sent and the ledger is unchanged.
C21_LedgerRecording ==
    (unitOut.done /\ unitOut.fn = "send_orders_to_gateway")
    => IF unitIn.gateway \in GatewayNames /\ unitIn.receiver_alive
       THEN /\ unitOut.log[unitIn.gateway] = <<unitIn.orders>>
            /\ \A g \in GatewayNames \ {unitIn.gateway} : unitOut.log[g] = <<>>
            /\ DOMAIN unitOut.ledger = DOMAIN unitIn.ledger \cup {unitIn.gateway}
            /\ unitOut.ledger[unitIn.gateway] = LimitsOf(unitIn.orders)
            /\ \A g \in DOMAIN unitIn.ledger \ {unitIn.gateway} :
                  unitOut.ledger[g] = unitIn.ledger[g]
       ELSE /\ \A g \in GatewayNames : unitOut.log[g] = <<>>
            /\ unitOut.ledger = unitIn.ledger

\* a batch of a limit, a market and a limit order has been sent to Binance,
\* whose ledger entry held two other limit orders
C21_Witness ==
    /\ unitOut.done
    /\ unitOut.fn = "send_orders_to_gateway"
    /\ unitIn.gateway = GwBinance
    /\ unitIn.receiver_alive
    /\ GwBinance \in DOMAIN unitIn.ledger
    /\ Len(unitIn.ledger[GwBinance]) = 2
    /\ Len(unitIn.orders) = 3
    /\ Len(unitOut.ledger[GwBinance]) = 2
    /\ unitOut.ledger[GwBinance] # unitIn.ledger[GwBinance]

\* the intake loop takes a batch from the robots' channel
IntakeStep ==
    /\ inbox # <<>>
    /\ inbox' = Tail(inbox)

\* C22 (as claimed): while the Order Manager is Started, a batch the intake
\* loop takes is appended to the pending list of its robot, with the pending
\* lists otherwise as they were, and a dispatch pass empties the pending map
\* and puts every pending order once into the message of its gateway.
C22_NoOrderLostOrDuplicated ==
    [][/\ (IntakeStep /\ omState = "Started")
             => LET robot_id == Head(inbox)[1].robot_id
                IN /\ DOMAIN wanted_orders' = DOMAIN wanted_orders \cup {robot_id}
                   /\ wanted_orders'[robot_id] =
                         (IF robot_id \in DOMAIN wanted_orders
                          THEN wanted_orders[robot_id] ELSE <<>>) \o Head(inbox)
                   /\ \A r \in DOMAIN wanted_orders \ {robot_id} :
                         wanted_orders'[r] = wanted_orders[r]
       /\ DispatchPass
             => /\ wanted_orders' = EmptyMap
                /\ \A g \in GatewayNames : \A r \in DOMAIN wanted_orders :
                      OrdersFor(SentTo(g), r, g) = OrdersFor(wanted_orders[r], r, g)]_vars

\* C23 (as claimed): while the Order Manager is Started, an ActiveStateOrder a
\* gateway has sent for a robot is eventually in that robot's list of the
\* active-orders store, after the messages sent before it.
C23_ActiveOrderConfirmation ==
    \A a \in ActiveOrderMenu :
       (/\ omState = "Started"
        /\ active_order_msg_receiver # <<>>
        /\ active_order_msg_receiver[1].active_order = a)
       ~> (\/ omState = "Stopped"
           \/ /\ a.robot_id \in DOMAIN active_orders
              /\ \E i \in 1..Len(active_orders[a.robot_id]) :
                    active_orders[a.robot_id][i] = a)

\* the active orders of a list without those of a custom order id, in order
RECURSIVE WithoutOrder(_, _)
WithoutOrder(list, id) ==
    IF list = <<>> THEN <<>>
    ELSE IF Head(list).custom_order_id = id
         THEN WithoutOrder(Tail(list), id)
         ELSE <<Head(list)>> \o WithoutOrder(Tail(list), id)

\* C24 (as claimed): when the Order Manager handles a FilledOrder, the
\* ActiveOrder with the custom order id of the fill is gone from the list of
\* its robot and every other entry of the store is as it was.
C24_FilledOrderRemovesActive ==
    (unitOut.done /\ unitOut.fn = "handle_active_order" /\ unitIn.msg.type = "FilledOrder")
    => /\ DOMAIN unitOut.active_orders = DOMAIN unitIn.active_orders
       /\ \A r \in DOMAIN unitIn.active_orders :
             unitOut.active_orders[r] =
                WithoutOrder(unitIn.active_orders[r], unitIn.msg.filled_order.custom_order_id)

\* the update loop takes a message of the given type from the gateways' channel
UpdateStep(type) ==
    /\ updateLoop = "running"
    /\ info_receiver # <<>>
    /\ info_receiver' = Tail(info_receiver)
    /\ Head(info_receiver).type = type

\* the entries of a depth table
DepthEntries(depths) ==
    UNION {{depths[x][y] : y \in DOMAIN depths[x]} : x \in DOMAIN depths}

\* C25 (as claimed): processing a DepthMsg for (gateway g, symbol s) puts the
\* new snapshot in the table as the entry of (g, s) and leaves every entry of
\* another symbol or another gateway as it was.
C25_DepthTableFrame ==
    [][UpdateStep("DepthMsg")
         => LET d == Head(info_receiver).depth_info
            IN /\ d \in DepthEntries(depth_info')
               /\ \A e \in DepthEntries(depth_info) :
                     (e.gateway_name # d.gateway_name \/ e.symbol # d.symbol)
                        => e \in DepthEntries(depth_info')
               /\ \A e \in DepthEntries(depth_info') :
                     e = d \/ e \in DepthEntries(depth_info)]_vars

\* the filled history of a robot in a store
HistoryOf(store, robot) == IF robot \in DOMAIN store THEN store[robot] ELSE <<>>

\* C26: when the update loop processes a FilledOrder whose custom order id has
\* a recorded ActiveOrder of robot R, one FilledInfo is appended to the end of
\* R's filled history, with the robot id, gateway, symbol, price, side and
\* strategy metadata of the ActiveOrder and the amount of the FilledOrder; the
\* history of every other robot is unchanged and the positions file holds the
\* whole table when the handler returns.
C26_FillAppendsFilledInfo ==
    [][(/\ UpdateStep("FilledOrder")
        /\ Head(info_receiver).filled_order.custom_order_id \in DOMAIN active_orders_info)
       => LET f == Head(info_receiver).filled_order
              a == active_orders_info[f.custom_order_id]
              old == HistoryOf(filled_orders_info_store, a.robot_id)
              new == HistoryOf(filled_orders_info_store', a.robot_id)
          IN /\ Len(new) = Len(old) + 1
             /\ SubSeq(new, 1, Len(old)) = old
             /\ new[Len(new)].robot_id = a.robot_id
             /\ new[Len(new)].gateway = a.gateway
             /\ new[Len(new)].symbol = a.symbol
             /\ new[Len(new)].price = a.price
             /\ new[Len(new)].order_side = a.order_side
             /\ new[Len(new)].strategy_params = a.strategy_params
             /\ new[Len(new)].amount = f.amount
             /\ \A r \in (DOMAIN filled_orders_info_store
                          \cup DOMAIN filled_orders_info_store') \ {a.robot_id} :
                   HistoryOf(filled_orders_info_store', r)
                      = HistoryOf(filled_orders_info_store, r)
             /\ positions_file' = filled_orders_info_store']_vars

\* the fill of robot R1's order was put after the fill R1 had from the earlier
\* run, robot R2's history is the one the file held, and the file holds both
C26_Witness ==
    /\ info_receiver = <<>>
    /\ Len(HistoryOf(filled_orders_info_store, "R1")) = 2
    /\ filled_orders_info_store["R1"][2].amount = <<"2">>
    /\ HistoryOf(filled_orders_info_store, "R2") = <<StoredFill("R2", 9)>>
    /\ positions_file = filled_orders_info_store

\* the keys (exchange, symbol) of the entries of a depth table
DepthKeys(depths) ==
    UNION {{<<x, y>> : y \in DOMAIN depths[x]} : x \in DOMAIN depths}

\* a ContextInfo made for a robot from a depth table and a filled-history
\* store: one OrderBookInfo per entry of the table, one Position per FilledInfo
\* of the robot, in the order of its history
IsContextInfoOf(info, depths, store, robot) ==
    /\ Cardinality(info.orderbooks_info) = Cardinality(DepthKeys(depths))
    /\ \A k \in DepthKeys(depths) :
          \E o \in info.orderbooks_info :
             /\ o.symbol = k[2]
             /\ o.gateway_name = depths[k[1]][k[2]].gateway_name
             /\ o.exchange_name = depths[k[1]][k[2]].exchange_name
             /\ o.order_book.instrument_name = k[2]
    /\ Len(info.positions) = Len(HistoryOf(store, robot))
    /\ \A i \in 1..Len(info.positions) :
          /\ info.positions[i].gateway = store[robot][i].gateway
          /\ info.positions[i].symbol = store[robot][i].symbol
          /\ info.positions[i].price = store[robot][i].price
          /\ info.positions[i].order_side = store[robot][i].order_side
          /\ info.positions[i].strategy_params = store[robot][i].strategy_params

DepthSymbols(depths) == {k[2] : k \in DepthKeys(depths)}

\* every robot's channel was sent a ContextInfo with an order book of the symbol
PublishedToAll(symbol) ==
    \A r \in Robots :
        \E i \in 1..Len(info_senders[r]) :
            \E o \in info_senders[r][i].orderbooks_info : o.symbol = symbol

\* every GatewayMsg sent to the started Context Manager is applied in the end
C28_EveryMsgApplied ==
    (cmState = "Started" /\ info_receiver # <<>>) ~> (info_receiver = <<>>)

\* C28 (as claimed): while the Context Manager stays Started, every GatewayMsg
\* a Gateway sent is applied by the update loop in the end, and once a DepthMsg
\* was applied a ContextInfo with that depth entry is sent to every registered
\* robot in the end; the publish loop does not stay parked.
C28_ContextLiveness ==
    /\ C28_EveryMsgApplied
    /\ \A symbol \in {"BTCUSDT", "ETHUSDT"} :
          (symbol \in DepthSymbols(depth_info)) ~> PublishedToAll(symbol)
    /\ [](cmState = "Started" => publishLoop = "running")

\* the sending thread takes containers off the front of the gateway's queue
DrainStep == Len(order_containers') < Len(order_containers)

\* C29 (as claimed): the containers a gateway takes off its queue are submitted
\* to the exchange one at a time, in the order they were queued; where the
\* queue holds limit order L and, later, the Cancel of L, the submission of L
\* is in the exchange's log before the Cancel of L is.
C29_PerGatewaySerialization ==
    [][DrainStep
       => LET taken == Len(order_containers) - Len(order_containers')
              base == Len(exchangeLog)
          IN /\ Len(exchangeLog') = base + taken
             /\ SubSeq(exchangeLog', 1, base) = exchangeLog
             /\ \A j \in 1..taken :
                   /\ exchangeLog'[base + j].kind = order_containers[j].kind
                   /\ exchangeLog'[base + j].custom_order_id
                         = order_containers[j].custom_order_id
             /\ \A i \in 1..Len(order_containers) : \A j \in (i + 1)..Len(order_containers) :
                   (/\ order_containers[i].kind = "Limit"
                    /\ IsCancelOf(order_containers[j], order_containers[i]))
                      => \E a \in (base + 1)..Len(exchangeLog') :
                            /\ exchangeLog'[a].kind = "Limit"
                            /\ exchangeLog'[a].custom_order_id
                                  = order_containers[i].custom_order_id
                            /\ \A b \in 1..a :
                                  ~ (/\ exchangeLog'[b].kind = "Cancel"
                                     /\ exchangeLog'[b].custom_order_id
                                           = order_containers[i].custom_order_id)]_vars

\* the requests of the queue that are no limit orders are submitted one at a
\* time, in the order they were queued, up to the first limit order
C29_RequestsInQueueOrder ==
    [][DrainStep
       => LET base == Len(exchangeLog)
          IN /\ SubSeq(exchangeLog', 1, base) = exchangeLog
             /\ \A j \in 1..(Len(exchangeLog') - base) :
                   /\ exchangeLog'[base + j].kind = order_containers[j].kind
                   /\ exchangeLog'[base + j].custom_order_id
                         = order_containers[j].custom_order_id]_vars

\* C30 (as claimed): for every limit order the gateway takes off its queue and
\* the exchange does not reject, one ActiveStateOrder with the order's robot
\* id, custom order id, symbol, amount, price, side and strategy metadata is
\* put on the channel to the Order Manager; a rejected limit order, a market
\* order and a Cancel put none on it.
C30_ActiveOrderPerAcceptedLimit ==
    [][DrainStep
       => LET taken == Len(order_containers) - Len(order_containers')
              base == Len(exchangeLog)
              sent == Len(active_order_msg_receiver)
              accepted ==
                  {j \in 1..taken :
                      /\ order_containers[j].kind = "Limit"
                      /\ ~ \E a \in (base + 1)..Len(exchangeLog') :
                             /\ exchangeLog'[a].kind = "Limit"
                             /\ exchangeLog'[a].custom_order_id
                                   = order_containers[j].custom_order_id
                             /\ exchangeLog'[a].outcome = "rejected"}
          IN /\ Len(active_order_msg_receiver') = sent + Cardinality(accepted)
             /\ SubSeq(active_order_msg_receiver', 1, sent) = active_order_msg_receiver
             /\ \A j \in accepted :
                   \E k \in (sent + 1)..Len(active_order_msg_receiver') :
                      LET m == active_order_msg_receiver'[k]
                      IN /\ m.type = "ActiveStateOrder"
                         /\ m.active_order.robot_id = order_containers[j].robot_id
                         /\ m.active_order.custom_order_id = order_containers[j].custom_order_id
                         /\ m.active_order.symbol = order_containers[j].symbol
                         /\ m.active_order.amount = order_containers[j].amount
                         /\ m.active_order.price = order_containers[j].price
                         /\ m.active_order.order_side = order_containers[j].order_side
                         /\ m.active_order.strategy_params = order_containers[j].metainfo]_vars

\* a limit order whose notional is above the account's free balance of the
\* side it needs (check_balance: amount * price > balance)
OverBalance(oc) == oc.kind = "Limit" /\ oc.amount * oc.price > balance_quote

\* the container is in the gateway's queue
InQueue(oc) == \E i \in 1..Len(order_containers) : order_containers[i] = oc

\* the exchange's log has a submission of the container
Submitted(oc) ==
    \E a \in 1..Len(exchangeLog) :
        /\ exchangeLog[a].kind = oc.kind
        /\ exchangeLog[a].custom_order_id = oc.custom_order_id

\* C31 (as claimed): a limit order whose notional is above the free balance
\* is not submitted when the dispatch loop takes it, and it is put on the
\* gateway's queue again after the moratorium: the dispatch pass that took it
\* ends with the sending loop running, and from any moment the order is in the
\* queue it is, again and again, in the queue (or submitted at last).
C31_BalanceMoratorium ==
    /\ [][DrainStep
          => /\ \A j \in 1..(Len(order_containers) - Len(order_containers')) :
                   OverBalance(order_containers[j])
                      => ~ \E a \in (Len(exchangeLog) + 1)..Len(exchangeLog') :
                             /\ exchangeLog'[a].kind = "Limit"
                             /\ exchangeLog'[a].custom_order_id
                                   = order_containers[j].custom_order_id]_vars
    /\ \A batch \in GwBatchMenu :
          OverBalance(batch[1])
             => [](InQueue(batch[1])
                      => []<>(InQueue(batch[1]) \/ Submitted(batch[1]) \/ gwStops > 0))

\* what check_risk is claimed to return for a position list, the high-water
\* mark being the one the evaluation has updated
RiskRules(positions, high) ==
    \/ calc_pnl(positions) <= 0 - max_loss
    \/ (calc_pnl(positions) < 0 /\ stop_loss <= high + calc_pnl(positions))
    \/ check_bad_deal_chain_sequence(positions)

\* C32 (as claimed): every evaluation of check_risk returns, and it returns
\* true exactly when max-loss, stop-loss or bad-deal-chain holds, stop-loss
\* holding exactly when pnl < 0 and stop_loss <= max_pnl + pnl with the
\* max_pnl this evaluation has updated.
C32_StopLossAndComposition ==
    [][(unitIn.fn = "check_risk" /\ unitIn' # unitIn)
       => /\ ~unitOut'.panicked
          /\ unitOut'.result <=> RiskRules(Head(unitIn.snapshots), max_pnl')]_vars

\* the same where max_loss + pnl stays in the range of i32
C32_WithinI32 ==
    [][(/\ unitIn.fn = "check_risk"
        /\ unitIn' # unitIn
        /\ ~AddOverflows(max_loss, calc_pnl(Head(unitIn.snapshots))))
       => /\ ~unitOut'.panicked
          /\ unitOut'.result <=> RiskRules(Head(unitIn.snapshots), max_pnl')]_vars

\* C33 (as claimed): a set_config call that meets an Active Robot or Gateway,
\* or a Locked Robot, returns an error and leaves the parameters as they were,
\* and the parameters of a Robot or a Gateway are never written while its
\* status is Active, however set_config and start() interleave.
C33_ConfigOnlyWhileStopped ==
    /\ [][(configCall' # configCall /\ configCall'.from \in {"Active", "Locked"})
          => (/\ configCall'.res = "Err"
              /\ robot_params' = robot_params
              /\ gateway_params' = gateway_params)]_vars
    /\ [][(robot_params' # robot_params) => robotStatus # "Active"]_vars
    /\ [][(gateway_params' # gateway_params) => gwStatus # "Active"]_vars

\* the parts of the claim that hold: a call that meets an Active or Locked
\* component is refused, and a Gateway's parameters are written only while it
\* is Stopped
C33_RefusedAndGatewayStopped ==
    /\ [][(configCall' # configCall /\ configCall'.from \in {"Active", "Locked"})
          => (/\ configCall'.res = "Err"
              /\ robot_params' = robot_params
              /\ gateway_params' = gateway_params)]_vars
    /\ [][(gateway_params' # gateway_params) => gwStatus = "Stopped"]_vars

\* a start() of the Order Manager that follows a stop() that returned Ok
RestartStep ==
    /\ omState = "Stopped"
    /\ omState' = "Started"
    /\ omCall = [op |-> "stop", res |-> "Ok"]

\* C34 (as claimed): a start() after a successful stop() returns Ok, and at
\* that moment the sent-orders ledger holds no orders and no order received
\* before the stop is pending for dispatch.
C34_RestartFromEmpty ==
    [][RestartStep
       => /\ omCall' = [op |-> "start", res |-> "Ok"]
          /\ \A g \in DOMAIN sent_orders : sent_orders[g] = <<>>
          /\ \A r \in DOMAIN wanted_orders : wanted_orders[r] = <<>>]_vars

\* the part about the ledger and the result of start()
C34_RestartLedgerEmpty ==
    [][RestartStep
       => /\ omCall' = [op |-> "start", res |-> "Ok"]
          /\ \A g \in DOMAIN sent_orders : sent_orders[g] = <<>>]_vars

\* C35 (as claimed): the key under which a dispatched limit order is recorded
\* in the sent-orders ledger is the key under which check_order looks up a later
\* order with the same gateway field: for every limit order recorded in the
\* ledger (the only one of its dedup key in its entry), check_order of a later
\* limit order with the same robot, gateway field, symbol, side and strategy tag
\* returns the Cancel of the recorded order, whatever the form of the gateway
\* identifier ("Binance", "huobi").
C35_RecordKeyIsLookupKey ==
    \A g \in DOMAIN sent_orders : \A k \in 1..Len(sent_orders[g]) :
        LET o == sent_orders[g][k]
            later == [o EXCEPT !.price = o.price + 1]
            res == check_order(sent_orders, later)
        IN (\A j \in 1..Len(sent_orders[g]) : SameKey(sent_orders[g][j], o) => j = k)
              => \E i \in 1..Len(res.cancels) : IsCancelOf(res.cancels[i], o)

\* the part of C35 that holds: a recorded limit order whose gateway field is
\* already the normalized name is found by check_order of a later order
C35_NormalizedKeyFound ==
    \A g \in DOMAIN sent_orders : \A k \in 1..Len(sent_orders[g]) :
        LET o == sent_orders[g][k]
            later == [o EXCEPT !.price = o.price + 1]
            res == check_order(sent_orders, later)
        IN ( /\ o.gateway = extract_gateway_name(o.gateway)
             /\ \A j \in 1..Len(sent_orders[g]) : SameKey(sent_orders[g][j], o) => j = k )
              => \E i \in 1..Len(res.cancels) : IsCancelOf(res.cancels[i], o)

\* the container is in a batch on the gateway's channel
OnChannel(oc) ==
    \E b \in 1..Len(orders_receiver) : \E i \in 1..Len(orders_receiver[b]) :
        orders_receiver[b][i] = oc

\* both loops of the gateway have left after a stop() call
LoopsExited == gwStops > 0 /\ receiveLoop # "running" /\ orderLoop # "running"

C36_QueuedCancelSubmitted ==
    [][(DrainStep /\ orderLoop' # "panicked")
          => \A j \in 1..Len(order_containers) :
                order_containers[j].kind = "Cancel"
                   => \E a \in (Len(exchangeLog) + 1)..Len(exchangeLog') :
                         /\ exchangeLog'[a].kind = "Cancel"
                         /\ exchangeLog'[a].custom_order_id
                               = order_containers[j].custom_order_id]_vars

\* the info loop waits in lock() for the status lock that a stop() call holds:
\* receive_info took a context for which Risk Control returned true while
\* stop() was under way
StopRacesLock == infoLoop = "locking" /\ robotCall.op = "stop"

\* C37 (as claimed): when stop() of an Active robot races with the info loop's
\* risk lock, stop() returns Ok or an error, and once the info loop has got the
\* status lock the status is Stopped or Locked, the info loop has exited and
\* the main cycle no longer runs.
C37_StopRacesRiskLock ==
    [][/\ (StopRacesLock /\ robotStopPc = "trySend" /\ robotStopPc' = "idle")
             => robotCall'.res \in {"Ok", "Err"}
       /\ (StopRacesLock /\ infoLoop' # "locking")
             => /\ robotStatus' \in {"Stopped", "Locked"}
                /\ infoLoop' = "exited"
                /\ mainLoop' # "running"]_vars

\* the part of C37 that holds: in the race the first stop signal is taken by
\* the main cycle, which exits, and the info loop never takes a stop signal
\* while it waits for the status lock
C37_MainCycleTakesSignal ==
    [][(StopRacesLock /\ robotStopPc = "send" /\ robotStopPc' # "send")
          => /\ mainLoop' = "exited"
             /\ infoLoop' = "locking"
             /\ robotStopPc' = "trySend"]_vars

\* the step of the main cycle that puts a batch on the Order Manager's channel
CycleSends == Len(inbox') > Len(inbox)

\* C38: every OrderMsg the robot's main cycle sends to the Order Manager holds
\* at least one OrderContainer and all its containers carry the robot's name
\* as robot_id; so every batch on the channel has a first container, and the
\* intake loop files each container under its own robot's id.
C38_BatchOfOneRobot ==
    /\ [][CycleSends
            => LET batch == inbox'[Len(inbox')]
               IN /\ Len(batch) >= 1
                  /\ \A i \in 1..Len(batch) : batch[i].robot_id = get_robot_name]_vars
    /\ [](\A b \in 1..Len(inbox) :
             /\ Len(inbox[b]) >= 1
             /\ \A i \in 1..Len(inbox[b]) : inbox[b][i].robot_id = inbox[b][1].robot_id)
    /\ [](\A r \in DOMAIN wanted_orders :
             \A i \in 1..Len(wanted_orders[r]) : wanted_orders[r][i].robot_id = r)

\* a batch of two containers of the robot was filed by the intake loop
C38_Witness ==
    \E r \in DOMAIN wanted_orders :
        /\ r = get_robot_name
        /\ Len(wanted_orders[r]) >= 2
        /\ wanted_orders[r][2].robot_id = r
        /\ batchesSent >= 1

\* C39: after Gateway.stop() has returned Ok, for as long as the Gateway stays
\* Stopped, neither loop runs, no request is added to the exchange's log and no
\* ActiveOrder goes on the channel to the Order Manager; the orders that were
\* in the queue or on the channel at the stop stay where they are.  (A limit
\* order taken from the queue before the stop has ended the sending thread in
\* order_sender, so no task of it is left to run.)
C39_NoSubmissionAfterStop ==
    /\ []((gwStatus = "Stopped" /\ gwStopPc = "idle")
             => (receiveLoop # "running" /\ orderLoop # "running"))
    /\ [][(gwStatus = "Stopped" /\ gwStatus' = "Stopped")
             => /\ exchangeLog' = exchangeLog
                /\ active_order_msg_receiver' = active_order_msg_receiver
                /\ order_containers' = order_containers]_vars

\* stop() has returned Ok after the exchange got a request, with a batch that
\* arrived later still waiting on the channel or in the queue
C39_Witness ==
    /\ gwStatus = "Stopped"
    /\ gwCall = [op |-> "stop", res |-> "Ok"]
    /\ exchangeLog # <<>>
    /\ (order_containers # <<>> \/ orders_receiver # <<>>)

\* C40 (as claimed): when a Platform.start() call made on a Stopped platform
\* has returned an error because a component failed to start, the platform
\* status is Stopped.
C40_StartAllOrNothing ==
    (platformPc = "idle" /\ platformCall.op = "start" /\ platformCall.from = "Stopped"
        /\ platformCall.res = "Err")
       => platformStatus = "Stopped"

\* the part of C40 that holds: a start() that was rejected as already running
\* and a start() that returned Ok leave the status Active, and a start() that
\* failed on a component leaves the status it had written before the first
\* component was started
C40_StatusWrittenFirst ==
    (platformPc = "idle" /\ platformCall.op = "start" /\ platformCall.res \in {"Ok", "Err"})
       => platformStatus = "Active"

====
